---- MODULE Spec2Model ----
(***************************************************************************)
(* Verification model of the metabolicsuite compute core:                  *)
(*   - evaluate_gpr_expression            (api.py, GPR rule evaluation)    *)
(*   - apply_constraints / E-Flux scaling (api.py, bound rewriting)        *)
(*   - BenchmarkComparator.compare        (benchmark.py)                   *)
(*   - BiGGModelCatalog.get_benchmark_models (benchmark.py)                *)
(*   - COBRApyBenchmark.run_benchmark     (benchmark.py)                   *)
(*   - the formulation endpoints          (api.py, solve_fba .. eflux)     *)
(*   - model_from_dict / run_cobrapy_benchmark (building a model)          *)
(*   - analysis requests in progress at once (api.py, model ownership)     *)
(*   - COBRApyBenchmark.solve_fba/pfba/fva (benchmark.py)                  *)
(*   - solve_gimme / solve_imat           (api.py, scoring, formulation)   *)
(*   - BiGGModelCatalog.fetch_catalog     (benchmark.py)                   *)
(*                                                                         *)
(* Representation.  Python strings are sequences of one-character strings. *)
(* Expression levels (floats) are integers counted in tenths: 10 is 1.0,   *)
(* 2 is 0.2.  float('inf') is the integer PosInf, larger than every level  *)
(* the model forms.  Optional values are sequences of length at most one:  *)
(* None is << >> and a present value v is << v >>.                         *)
(***************************************************************************)
EXTENDS Integers, Sequences, FiniteSets, TLC

VARIABLES
    \* ---- evaluate_gpr_expression ----
    gpr_rule,      \* the rule string passed in
    expression,    \* the expression map: gene id (string) -> level
    expr,          \* the working string of the outermost evaluate() call
    pc,            \* position of the call: "call", "paren", "exhausted", "killed", "done"
    result,        \* the value returned (meaningful when pc = "done")
    rule_form,     \* how the rule was written: operands, operators, group
    iters,         \* iterations of the parenthesis loop taken so far
    \* ---- NetworkModel under apply_constraints / E-Flux ----
    rxn_rule,      \* reaction id -> gene_reaction_rule (string)
    lower_bound,   \* reaction id -> lower bound
    upper_bound,   \* reaction id -> upper bound
    functional,    \* gene id -> functional flag (FALSE once knocked out)
    last_op,       \* the last operation applied to the model, with its inputs
    pre_lb,        \* lower bounds before the last operation
    pre_ub,        \* upper bounds before the last operation
    raised,        \* TRUE iff the last operation raised
    ops,           \* operations applied so far
    \* ---- BenchmarkComparator.compare ----
    result_a,      \* first SolveResult
    result_b,      \* second SolveResult
    comparison,    \* the ComparisonResult returned; << >> before the call
    \* ---- BiGGModelCatalog.get_benchmark_models ----
    catalog,       \* self.catalog: list of ModelInfo
    min_reactions, \* argument
    max_reactions, \* argument
    limit,         \* argument
    fetched,       \* TRUE iff the call went through fetch_catalog
    selected,      \* outcome of the call; << >> before the call
    \* ---- COBRApyBenchmark.run_benchmark ----
    models,        \* argument: list of bigg ids
    methods,       \* argument: list of method names
    solvers,       \* argument: list of solver names
    mi,            \* position in models
    me,            \* position in methods
    so,            \* position in solvers
    model_obj,     \* the model object in hand; << >> when none is loaded
    loaded,        \* number of model objects load_model has returned
    results,       \* the list of results appended so far
    run_pc,        \* "load", "solve", "returned", "raised"; "idle" outside a run
    \* ---- formulation endpoints (solve_fba .. solve_eflux) ----
    request,         \* the request: endpoint and options
    cobra_available, \* TRUE iff cobra can be imported
    api_pc,          \* "entry", "try", "responded", "raised"; "idle" outside a call
    step,            \* position in the statements of the try block
    reports,         \* the statuses the optimizer has reported during the call
    caught,          \* the exception the except clause caught; << >> if none
    response,        \* the response returned; << >> before the return
    \* ---- building a model from model data ----
    model_json,    \* the model data: declared metabolites and reactions
    builder,       \* the function that builds: model_from_dict or run_cobrapy_benchmark
    built,         \* the model under construction
    ri,            \* position in the reactions of the data
    build_pc,      \* "metabolites", "reactions", "solved", "error"; "idle" outside a build
    \* ---- BiGGModelCatalog.fetch_catalog ----
    catalog_file,  \* catalog.json of the cache directory; << >> if it does not exist
    inst_catalog,  \* self.catalog of the instance in use
    last_fetched,  \* the list of the last fetch that succeeded; << >> if none yet
    fetch_call,    \* the last call of fetch_catalog; << >> before the first
    fetches,       \* number of calls of fetch_catalog so far
    \* ---- solve_gimme / solve_imat ----
    omics_request,       \* the OmicsRequest: method, rules of the model, expression, thresholds
    omics_pc,            \* "score", "first_solve", "formulate", "solve", "responded"; "idle" outside
    reaction_expression, \* GIMME: reaction id -> score; << >> before scoring
    high_expr_rxns,      \* iMAT: the reactions classified high
    low_expr_rxns,       \* iMAT: the reactions classified low
    problem,             \* variables, constraints and objective of the model
    omics_response,      \* the response; << >> before the return
    \* ---- COBRApyBenchmark.solve_fba / solve_pfba / solve_fva ----
    solve_call,    \* the call: which solve, and the solver argument
    solve_pc,      \* "set_solver", "optimize", "returned"; "idle" outside a call
    reported,      \* the status the optimizer reported; << >> if it has not run
    solve_result,  \* the SolveResult returned; << >> before the return
    \* ---- two analysis requests in progress at once ----
    submitted,     \* the model data both requests were submitted with
    conc_reqs,     \* request id -> the request
    conc_heap,     \* the objects of the process: model data and models built
    conc_st        \* request id -> position, reference to its model, answer

gprVars == <<gpr_rule, expression, expr, pc, result, rule_form, iters>>
netVars == <<rxn_rule, lower_bound, upper_bound, functional, last_op, pre_lb, pre_ub, raised, ops>>
cmpVars == <<result_a, result_b, comparison>>
catVars == <<catalog, min_reactions, max_reactions, limit, fetched, selected>>
runVars == <<models, methods, solvers, mi, me, so, model_obj, loaded, results, run_pc>>
apiVars == <<request, cobra_available, api_pc, step, reports, caught, response>>
buildVars == <<model_json, builder, built, ri, build_pc>>
fetchVars == <<catalog_file, inst_catalog, last_fetched, fetch_call, fetches>>
omicsVars == <<omics_request, omics_pc, reaction_expression, high_expr_rxns, low_expr_rxns, problem, omics_response>>
solveVars == <<solve_call, solve_pc, reported, solve_result>>
concVars == <<submitted, conc_reqs, conc_heap, conc_st>>
extVars == <<buildVars, fetchVars, omicsVars, solveVars, concVars>>
benchVars == <<catVars, runVars, apiVars, extVars>>
coreVars == <<gprVars, netVars, cmpVars, catVars, runVars, apiVars>>
vars == <<gpr_rule, expression, expr, pc, result, rule_form, iters,
          rxn_rule, lower_bound, upper_bound, functional, last_op, pre_lb, pre_ub, raised, ops,
          result_a, result_b, comparison,
          catalog, min_reactions, max_reactions, limit, fetched, selected,
          models, methods, solvers, mi, me, so, model_obj, loaded, results, run_pc,
          request, cobra_available, api_pc, step, reports, caught, response,
          model_json, builder, built, ri, build_pc,
          catalog_file, inst_catalog, last_fetched, fetch_call, fetches,
          omics_request, omics_pc, reaction_expression, high_expr_rxns, low_expr_rxns, problem, omics_response,
          solve_call, solve_pc, reported, solve_result,
          submitted, conc_reqs, conc_heap, conc_st>>

(***************************************************************************)
(* Bounds of the model.                                                    *)
(***************************************************************************)
\* largest number of gene operands in a generated rule
MaxGenes == 3
\* length of the working string beyond which the memory of the process is
\* taken to be exhausted
MaxExprLen == 40
\* largest number of calls of fetch_catalog in a behaviour
MaxFetches == 3
\* largest number of entries in an answer of the server
MaxResults == 2
\* largest number of reactions in generated model data
MaxModelReactions == 2

(***************************************************************************)
(* Python string primitives.                                               *)
(***************************************************************************)
None == << >>

Some(v) == << v >>

MinOf(a, b) == IF a <= b THEN a ELSE b

MaxOf(a, b) == IF a >= b THEN a ELSE b

\* a difference taken without its absolute value
Abs_signed(x) == x

Abs(x) == IF x < 0 THEN -x ELSE x

\* s[i:j] for 0-based i, j; a negative index counts from the end
PySlice(s, i, j) ==
    LET n == Len(s)
        norm(k) == IF k < 0 THEN MaxOf(k + n, 0) ELSE MinOf(k, n)
        a == norm(i)
        b == norm(j)
    IN  IF a >= b THEN << >> ELSE SubSeq(s, a + 1, b)

\* s[i:]
PySliceFrom(s, i) ==
    LET n == Len(s)
        a == IF i < 0 THEN MaxOf(i + n, 0) ELSE MinOf(i, n)
    IN  IF a >= n THEN << >> ELSE SubSeq(s, a + 1, n)

\* s.rfind(c) for a one-character c: 0-based index of the last c, or -1
PyRFind(s, c) ==
    LET hits == {i \in 1..Len(s) : s[i] = c}
    IN  IF hits = {} THEN -1
        ELSE (CHOOSE i \in hits : \A j \in hits : j <= i) - 1

\* s.find(c, start) for a one-character c: 0-based index of the first c at or
\* after start, or -1
PyFind(s, c, start) ==
    LET hits == {i \in 1..Len(s) : s[i] = c /\ i - 1 >= start}
    IN  IF hits = {} THEN -1
        ELSE (CHOOSE i \in hits : \A j \in hits : i <= j) - 1

\* 1-based index of the first occurrence of sub in s, or 0
IndexOf(s, sub) ==
    LET hits == {i \in 1..(Len(s) - Len(sub) + 1) : SubSeq(s, i, i + Len(sub) - 1) = sub}
    IN  IF hits = {} THEN 0
        ELSE CHOOSE i \in hits : \A j \in hits : i <= j

\* sub in s
Contains(s, sub) == IndexOf(s, sub) # 0

\* str.strip(): the model's only whitespace character is the blank
RECURSIVE PyStrip(_)
PyStrip(s) ==
    IF s = << >> THEN s
    ELSE IF Head(s) = " " THEN PyStrip(Tail(s))
    ELSE IF s[Len(s)] = " " THEN PyStrip(SubSeq(s, 1, Len(s) - 1))
    ELSE s

\* str.lower() on one character of the model's alphabet
LowerChar(c) ==
    CASE c = "A" -> "a"
      [] c = "B" -> "b"
      [] c = "C" -> "c"
      [] c = "D" -> "d"
      [] c = "N" -> "n"
      [] c = "O" -> "o"
      [] c = "R" -> "r"
      [] OTHER   -> c

\* str.lower()
PyLower(s) == [i \in 1..Len(s) |-> LowerChar(s[i])]

\* s.split(sep): the pieces between the leftmost non-overlapping occurrences
RECURSIVE PySplit(_, _)
PySplit(s, sep) ==
    LET i == IndexOf(s, sep)
    IN  IF i = 0 THEN << s >>
        ELSE << SubSeq(s, 1, i - 1) >> \o PySplit(SubSeq(s, i + Len(sep), Len(s)), sep)

(***************************************************************************)
(* float <-> str.  Levels are counted in tenths.                           *)
(***************************************************************************)
\* float('inf') (the model's levels stay far below it)
PosInf == 1000000

\* the outcome of float(s) raising ValueError
NotFloat == -1

IsFinite(v) == v # PosInf

DigitChars == <<"0", "1", "2", "3", "4", "5", "6", "7", "8", "9">>

IsDigit(c) == \E d \in 1..10 : DigitChars[d] = c

DigitVal(c) == (CHOOSE d \in 1..10 : DigitChars[d] = c) - 1

\* decimal digits of a natural number
RECURSIVE NatStr(_)
NatStr(n) ==
    IF n < 10 THEN << DigitChars[n + 1] >>
    ELSE NatStr(n \div 10) \o << DigitChars[(n % 10) + 1] >>

\* value of a digit string (0 for the empty string)
RECURSIVE NatVal(_)
NatVal(s) ==
    IF s = << >> THEN 0
    ELSE 10 * NatVal(SubSeq(s, 1, Len(s) - 1)) + DigitVal(s[Len(s)])

\* str(x) of a non-negative float x: repr of a level in tenths is
\* "<integer part>.<tenth>"; str(float('inf')) is "inf"
PyStr(v) ==
    IF v = PosInf THEN <<"i", "n", "f">>
    ELSE NatStr(v \div 10) \o <<".">> \o << DigitChars[(v % 10) + 1] >>

\* float(s): surrounding blanks are ignored; "inf"/"infinity" in any case is
\* infinity; digits with at most one point (and at least one digit) are a
\* number; anything else raises ValueError (NotFloat).  The strings the model
\* forms carry at most one fractional digit, so the value is exact in tenths.
PyFloat(s) ==
    LET t == PyStrip(s)
        low == PyLower(t)
        dot == IndexOf(t, <<".">>)
        ip == IF dot = 0 THEN t ELSE SubSeq(t, 1, dot - 1)
        fp == IF dot = 0 THEN << >> ELSE SubSeq(t, dot + 1, Len(t))
        digitsOnly(u) == \A i \in 1..Len(u) : IsDigit(u[i])
    IN  IF low = <<"i", "n", "f">> \/ low = <<"i", "n", "f", "i", "n", "i", "t", "y">>
        THEN PosInf
        ELSE IF digitsOnly(ip) /\ digitsOnly(fp) /\ Len(ip) + Len(fp) >= 1
        THEN 10 * NatVal(ip) + (IF fp = << >> THEN 0 ELSE DigitVal(fp[1]))
        ELSE NotFloat

RECURSIVE SeqMax(_)
SeqMax(vs) == IF Len(vs) = 1 THEN vs[1] ELSE MaxOf(vs[1], SeqMax(Tail(vs)))

RECURSIVE SeqMin(_)
SeqMin(vs) == IF Len(vs) = 1 THEN vs[1] ELSE MinOf(vs[1], SeqMin(Tail(vs)))

(***************************************************************************)
(* evaluate_gpr_expression (api.py 786-839).                               *)
(***************************************************************************)
\* the constitutive level 1.0 returned for blank rules, unknown genes and
\* caught exceptions
Constitutive == 10

OrSep == <<" ", "o", "r", " ">>

AndSep == <<" ", "a", "n", "d", " ">>

\* a lookup whose default for an unknown gene is 0.0
get_gene_expr_default_zero(gene_id, e) ==
    LET k == PyStrip(gene_id)
    IN  IF k \in DOMAIN e THEN e[k] ELSE 0

\* get_gene_expr: expression.get(gene_id.strip(), 1.0)
get_gene_expr(gene_id, e) ==
    LET k == PyStrip(gene_id)
    IN  IF k \in DOMAIN e THEN e[k] ELSE Constitutive

\* an evaluation that splits on "and" before it splits on "or"
RECURSIVE evaluate_flat_and_first(_, _)
evaluate_flat_and_first(x, e) ==
    LET s == PyStrip(x)
        low == PyLower(s)
    IN  IF Contains(low, AndSep)
        THEN LET parts == PySplit(low, AndSep)
             IN  SeqMin([i \in 1..Len(parts) |-> evaluate_flat_and_first(parts[i], e)])
        ELSE IF Contains(low, OrSep)
        THEN LET parts == PySplit(low, OrSep)
             IN  SeqMax([i \in 1..Len(parts) |-> evaluate_flat_and_first(parts[i], e)])
        ELSE IF PyFloat(s) # NotFloat THEN PyFloat(s)
        ELSE get_gene_expr(s, e)

\* evaluate(expr) on a string without "(": the OR / AND / leaf part of the
\* function body (lines 807, 818-834).  The parts of a split are taken from
\* the lower-cased string.
RECURSIVE evaluate_flat(_, _)
evaluate_flat(x, e) ==
    LET s == PyStrip(x)
        low == PyLower(s)
    IN  IF Contains(low, OrSep)
        THEN LET parts == PySplit(low, OrSep)
             IN  SeqMax([i \in 1..Len(parts) |-> evaluate_flat(parts[i], e)])
        ELSE IF Contains(low, AndSep)
        THEN LET parts == PySplit(low, AndSep)
             IN  SeqMin([i \in 1..Len(parts) |-> evaluate_flat(parts[i], e)])
        ELSE IF PyFloat(s) # NotFloat THEN PyFloat(s)
        ELSE get_gene_expr(s, e)

HasOpen(s) == \E i \in 1..Len(s) : s[i] = "("

CountOpen(s) == Cardinality({i \in 1..Len(s) : s[i] = "("})

\* an iteration that drops the innermost pair of parentheses and leaves its
\* contents unevaluated in the enclosing text
resolve_innermost_unwrapped(s, e) ==
    LET start == PyRFind(s, "(")
        end == PyFind(s, ")", start)
        inner == PySlice(s, start + 1, end)
    IN  PySlice(s, 0, start) \o inner \o PySliceFrom(s, end + 1)

\* one iteration of the parenthesis loop (lines 812-816).  inner lies after
\* the last "(", so the recursive evaluate(inner) never enters the loop.
resolve_innermost(s, e) ==
    LET start == PyRFind(s, "(")
        end == PyFind(s, ")", start)
        inner == PySlice(s, start + 1, end)
        res == evaluate_flat(inner, e)
    IN  PySlice(s, 0, start) \o PyStr(res) \o PySliceFrom(s, end + 1)

\* the whole function as an operator, for callers that use the score: the loop
\* runs until no "(" is left; a working string that outgrows memory raises
\* MemoryError, which line 838 turns into 1.0
RECURSIVE evaluate_loop(_, _)
evaluate_loop(s, e) ==
    IF HasOpen(s)
    THEN IF Len(s) > MaxExprLen THEN Constitutive
         ELSE evaluate_loop(resolve_innermost(s, e), e)
    ELSE evaluate_flat(s, e)

evaluate_gpr_expression(rule, e) ==
    IF PyStrip(rule) = << >> THEN Constitutive
    ELSE evaluate_loop(PyStrip(rule), e)

(***************************************************************************)
(* Inputs of evaluate_gpr_expression: rule strings and expression maps.    *)
(***************************************************************************)
\* gene identifiers of the generated rules
GeneIds == {<<"a">>, <<"b">>, <<"c">>}

\* gene identifiers that may be keys of an expression map
MapGeneIds == GeneIds \cup {<<"B">>}

\* genes every expression map measures
MeasuredGeneIds == {<<"a">>, <<"b">>}

\* expression levels of the maps (0.2 and 0.8)
Levels == {2, 8}

\* every map from a set of gene identifiers that holds the measured genes to
\* a level
ExpressionMaps ==
    UNION {[D -> Levels] : D \in {X \in SUBSET MapGeneIds : MeasuredGeneIds \subseteq X}}

Operators == {AndSep, OrSep}

\* the text of operands i..n of a rule: gene gs[i], "(" before operand open,
\* ")" after operand close, operator os[i] between operands i and i+1
RECURSIVE RuleText(_, _, _, _, _)
RuleText(gs, os, open, close, i) ==
    LET n == Len(gs)
        item == (IF open = i THEN <<"(">> ELSE << >>) \o gs[i]
                \o (IF close = i THEN <<")">> ELSE << >>)
    IN  IF i = n THEN item
        ELSE item \o os[i] \o RuleText(gs, os, open, close, i + 1)

\* well-formed rules of 1..MaxGenes operands with at most one parenthesised
\* group, spanning operands open..close (0, 0: no group)
RuleForms ==
    UNION {
        {[gs |-> gs, os |-> os, open |-> g[1], close |-> g[2]] :
            gs \in [1..n -> GeneIds], os \in [1..(n - 1) -> Operators],
            g \in {<<0, 0>>} \cup {x \in (1..n) \X (1..n) : x[1] <= x[2]}}
        : n \in 1..MaxGenes}

FormText(f) == RuleText(f.gs, f.os, f.open, f.close, 1)

\* the form of a rule written some other way
NoForm == [gs |-> << >>, os |-> << >>, open |-> 0, close |-> 0]

\* blank rules, numeric literals, nested groups, unbalanced parentheses,
\* upper-case operators and gene identifiers, identifiers between blanks
SpecialRules == {
    << >>,
    <<" ">>,
    <<" ", " ">>,
    <<"i", "n", "f">>,
    <<"0", ".", "5">>,
    <<" ", "c", " ">>,
    <<"z">>,
    <<"(", "a">>,
    <<"a", ")">>,
    <<"a", ")", "(", "b">>,
    <<"(", "a", ")", "(", "b", ")">>,
    <<"a", " ", "o", "r", " ", "(", "b">>,
    <<"(", "a", " ", "a", "n", "d", " ", "b">>,
    <<"a", ")", " ", "o", "r", " ", "(", "b">>,
    <<"a", " ", "O", "R", " ", "b">>,
    <<"B">>,
    <<"(", "B", ")">>,
    <<"B", " ", "o", "r", " ", "a">>,
    <<"A", " ", "a", "n", "d", " ", "b">>,
    <<"B", " ", "A", "N", "D", " ", "c">>,
    <<"(", "(", "a", " ", "a", "n", "d", " ", "b", ")", " ", "o", "r", " ", "c", ")">>,
    <<"(", "a", " ", "o", "r", " ", "(", "b", " ", "a", "n", "d", " ", "c", ")", ")", " ", "a", "n", "d", " ", "B">>
}

(***************************************************************************)
(* evaluate_gpr_expression as a process: the call, the parenthesis loop of *)
(* the outermost evaluate(), and the return.                               *)
(***************************************************************************)
\* lines 800-801 and 807: a blank rule returns 1.0 at once; otherwise the
\* outermost evaluate() strips the rule and reaches the parenthesis loop
Call ==
    /\ pc = "call"
    /\ IF PyStrip(gpr_rule) = << >>
       THEN /\ pc' = "done"
            /\ result' = Constitutive
            /\ expr' = expr
       ELSE /\ pc' = "paren"
            /\ expr' = PyStrip(gpr_rule)
            /\ result' = result
    /\ UNCHANGED <<gpr_rule, expression, rule_form, iters>>

\* lines 810-816: one iteration of `while "(" in expr`
ParenStep ==
    /\ pc = "paren"
    /\ HasOpen(expr)
    /\ Len(expr) <= MaxExprLen
    /\ expr' = resolve_innermost(expr, expression)
    /\ iters' = iters + 1
    /\ UNCHANGED <<gpr_rule, expression, rule_form, pc, result>>

\* the loop is still running and the working string has outgrown the memory
\* available to the process
Exhaust ==
    /\ pc = "paren"
    /\ HasOpen(expr)
    /\ Len(expr) > MaxExprLen
    /\ pc' = "exhausted"
    /\ UNCHANGED <<gpr_rule, expression, rule_form, expr, result, iters>>

\* lines 836-839: the allocation fails with MemoryError, which the handler
\* turns into 1.0
MemoryErrorCaught ==
    /\ pc = "exhausted"
    /\ pc' = "done"
    /\ result' = Constitutive
    /\ UNCHANGED <<gpr_rule, expression, rule_form, expr, iters>>

\* the other outcome of exhausting memory: the operating system kills the
\* process and the call never returns
ProcessKilled ==
    /\ pc = "exhausted"
    /\ pc' = "killed"
    /\ UNCHANGED <<gpr_rule, expression, rule_form, expr, result, iters>>

\* lines 818-834 and 837: no "(" is left; OR, AND or leaf, and return
Return ==
    /\ pc = "paren"
    /\ ~HasOpen(expr)
    /\ result' = evaluate_flat(expr, expression)
    /\ pc' = "done"
    /\ UNCHANGED <<gpr_rule, expression, rule_form, expr, iters>>

(***************************************************************************)
(* Specification of evaluate_gpr_expression: one call on any rule and map. *)
(***************************************************************************)
\* no model is loaded: the model-side variables of a process that only
\* evaluates rules
\* the benchmark harness before any call
CatIdle ==
    /\ catalog = << >>
    /\ min_reactions = 0
    /\ max_reactions = 0
    /\ limit = 0
    /\ fetched = FALSE
    /\ selected = << >>

RunIdle ==
    /\ models = << >>
    /\ methods = << >>
    /\ solvers = << >>
    /\ mi = 0
    /\ me = 0
    /\ so = 0
    /\ model_obj = << >>
    /\ loaded = 0
    /\ results = << >>
    /\ run_pc = "idle"

ApiIdle ==
    /\ request = << >>
    /\ cobra_available = TRUE
    /\ api_pc = "idle"
    /\ step = 0
    /\ reports = << >>
    /\ caught = << >>
    /\ response = << >>

\* no model is being built
BuildIdle ==
    /\ model_json = << >>
    /\ builder = ""
    /\ built = << >>
    /\ ri = 0
    /\ build_pc = "idle"

FetchIdle ==
    /\ catalog_file = << >>
    /\ inst_catalog = << >>
    /\ last_fetched = << >>
    /\ fetch_call = << >>
    /\ fetches = 0

OmicsIdle ==
    /\ omics_request = << >>
    /\ omics_pc = "idle"
    /\ reaction_expression = << >>
    /\ high_expr_rxns = {}
    /\ low_expr_rxns = {}
    /\ problem = << >>
    /\ omics_response = << >>

SolveIdle ==
    /\ solve_call = << >>
    /\ solve_pc = "idle"
    /\ reported = << >>
    /\ solve_result = << >>

ConcIdle ==
    /\ submitted = << >>
    /\ conc_reqs = << >>
    /\ conc_heap = << >>
    /\ conc_st = << >>

ExtIdle == BuildIdle /\ FetchIdle /\ OmicsIdle /\ SolveIdle /\ ConcIdle

BenchIdle == CatIdle /\ RunIdle /\ ApiIdle /\ ExtIdle

NetIdle ==
    /\ rxn_rule = << >>
    /\ lower_bound = << >>
    /\ upper_bound = << >>
    /\ functional = << >>
    /\ last_op = [kind |-> "none", constraints |-> << >>, knockouts |-> << >>, expression |-> << >>]
    /\ pre_lb = << >>
    /\ pre_ub = << >>
    /\ raised = FALSE
    /\ ops = 0

\* no comparison has been asked for
CmpIdle ==
    /\ result_a = None
    /\ result_b = None
    /\ comparison = None

\* no rule is being evaluated
GprIdle ==
    /\ gpr_rule = << >>
    /\ expression = << >>
    /\ expr = << >>
    /\ pc = "idle"
    /\ result = Constitutive
    /\ rule_form = NoForm
    /\ iters = 0

CoreIdle == GprIdle /\ NetIdle /\ CmpIdle /\ CatIdle /\ RunIdle /\ ApiIdle

InitGPR ==
    /\ \/ \E f \in RuleForms : rule_form = f /\ gpr_rule = FormText(f)
       \/ rule_form = NoForm /\ gpr_rule \in SpecialRules
    /\ expression \in ExpressionMaps
    /\ expr = << >>
    /\ pc = "call"
    /\ result = Constitutive
    /\ iters = 0
    /\ NetIdle
    /\ CmpIdle
    /\ BenchIdle

NextGPR ==
    \/ Call /\ UNCHANGED netVars /\ UNCHANGED cmpVars /\ UNCHANGED benchVars
    \/ ParenStep /\ UNCHANGED netVars /\ UNCHANGED cmpVars /\ UNCHANGED benchVars
    \/ Exhaust /\ UNCHANGED netVars /\ UNCHANGED cmpVars /\ UNCHANGED benchVars
    \/ MemoryErrorCaught /\ UNCHANGED netVars /\ UNCHANGED cmpVars /\ UNCHANGED benchVars
    \/ ProcessKilled /\ UNCHANGED netVars /\ UNCHANGED cmpVars /\ UNCHANGED benchVars
    \/ Return /\ UNCHANGED netVars /\ UNCHANGED cmpVars /\ UNCHANGED benchVars

SpecGPR == InitGPR /\ [][NextGPR]_vars

(***************************************************************************)
(* NetworkModel: the cobra model that model_from_dict builds (api.py       *)
(* 147-174) and that apply_constraints (176-193) and the E-Flux scaling    *)
(* loop of solve_eflux (643-651) rewrite in place.                         *)
(*                                                                         *)
(* Bounds are counted in thousandths (10000 is 10.0), so that a bound      *)
(* times a level in tenths, divided by 10, is exact for the scalings the   *)
(* model performs.                                                         *)
(*                                                                         *)
(* rxn.lower_bound, rxn.upper_bound and gene.knock_out() are attributes    *)
(* and a method of the cobra objects the code holds: the bound setters     *)
(* reject a lower bound above the upper bound with ValueError, and         *)
(* knock_out() marks the gene non-functional and sets the bounds of every  *)
(* reaction of the gene that is no longer functional to (0, 0).            *)
(***************************************************************************)
\* number of operations applied to one model
MaxOps == 2

\* model.reactions, in order
RxnOrder == <<"R1", "R2">>

ReactionIds == {RxnOrder[i] : i \in 1..Len(RxnOrder)}

\* model.genes
ModelGenes == {<<"a">>, <<"b">>}

RuleAandB == <<"a", " ", "a", "n", "d", " ", "b">>

RuleAorB == <<"a", " ", "o", "r", " ", "b">>

\* gene_reaction_rule of each reaction: R1 is catalysed by a complex or by
\* isozymes, R2 has no rule
RuleAssignments == {("R1" :> RuleAandB @@ "R2" :> << >>), ("R1" :> RuleAorB @@ "R2" :> << >>)}

\* (lower, upper) bounds of the reactions of a valid model: reversible,
\* irreversible, forced forward, forced backward
ValidBounds == {<<-10000, 10000>>, <<0, 10000>>, <<5000, 10000>>, <<-10000, -5000>>}

\* reaction ids named by overrides: RX is not in the model
OverrideIds == ReactionIds \cup {"RX"}

\* one override: a reaction id with "lb" and/or "ub"
Overrides ==
    {[id |-> r, lb |-> l, ub |-> u] :
        r \in OverrideIds, l \in {None, Some(7000)}, u \in {None, Some(3000)}}
    \ {[id |-> r, lb |-> None, ub |-> None] : r \in OverrideIds}

\* request.constraints, in iteration order: no override or one
ConstraintInputs == {<< >>} \cup {<< o >> : o \in Overrides}

\* request.knockouts: gx is not a gene of the model
KnockoutInputs == {<< >>, << (<<"a">>) >>, << (<<"b">>) >>, << (<<"g", "x">>) >>}

\* request.expression of an E-Flux request: levels 0.0, 0.5 and 1.5
EfluxMaps ==
    UNION {[D -> {0, 5, 15}] : D \in SUBSET ModelGenes}

\* a gene is mentioned by a rule
GeneInRule(g, rule) ==
    \E i \in 1..Len(rule) :
        /\ SubSeq(rule, i, i + Len(g) - 1) = g
        /\ (i = 1 \/ rule[i - 1] = " ")
        /\ (i + Len(g) - 1 = Len(rule) \/ rule[i + Len(g)] = " ")

\* reaction.functional of cobra for a rule without parentheses: an OR of ANDs
\* over the genes' functional flags; a reaction without rule is functional
ReactionFunctional(rule, fn) ==
    IF PyStrip(rule) = << >> THEN TRUE
    ELSE LET ors == PySplit(rule, OrSep)
         IN  \E i \in 1..Len(ors) :
                LET ands == PySplit(ors[i], AndSep)
                IN  \A j \in 1..Len(ands) : fn[PyStrip(ands[j])]

\* the model as a record, threaded through the statements of an operation;
\* err is set by the statement that raises, and nothing runs after it
ModelRec(lb, ub, fn, err) == [lb |-> lb, ub |-> ub, fn |-> fn, err |-> err]

\* rxn.lower_bound = v (api.py 183, 651)
SetLowerBound(m, r, v) ==
    IF m.err THEN m
    ELSE IF v > m.ub[r] THEN [m EXCEPT !.err = TRUE]
    ELSE [m EXCEPT !.lb[r] = v]

\* an assignment of the upper bound that is not checked against the lower bound
SetUpperBound_unchecked(m, r, v) ==
    IF m.err THEN m ELSE [m EXCEPT !.ub[r] = v]

\* rxn.upper_bound = v (api.py 185, 649)
SetUpperBound(m, r, v) ==
    IF m.err THEN m
    ELSE IF m.lb[r] > v THEN [m EXCEPT !.err = TRUE]
    ELSE [m EXCEPT !.ub[r] = v]

\* an override applied without the membership test of line 180: get_by_id
\* raises KeyError for an id the model does not have
ApplyOverride_unguarded(m, o) ==
    IF m.err THEN m
    ELSE IF o.id \notin ReactionIds THEN [m EXCEPT !.err = TRUE]
    ELSE LET m1 == IF o.lb # None THEN SetLowerBound(m, o.id, o.lb[1]) ELSE m
         IN  IF o.ub # None THEN SetUpperBound(m1, o.id, o.ub[1]) ELSE m1

\* lines 180-185: one override
ApplyOverride(m, o) ==
    IF o.id \in ReactionIds
    THEN LET m1 == IF o.lb # None THEN SetLowerBound(m, o.id, o.lb[1]) ELSE m
         IN  IF o.ub # None THEN SetUpperBound(m1, o.id, o.ub[1]) ELSE m1
    ELSE m

\* lines 178-185: every override, in order
RECURSIVE ApplyOverrides(_, _)
ApplyOverrides(m, cs) ==
    IF cs = << >> THEN m ELSE ApplyOverrides(ApplyOverride(m, Head(cs)), Tail(cs))

\* a knockout that flags the gene and leaves every bound alone
KnockOut_flag_only(m, g, rules) ==
    IF m.err \/ g \notin ModelGenes THEN m
    ELSE [m EXCEPT !.fn = [m.fn EXCEPT ![g] = FALSE]]

\* lines 189-191: gene.knock_out() for a gene of the model
KnockOut(m, g, rules) ==
    IF m.err \/ g \notin ModelGenes THEN m
    ELSE LET fn == [m.fn EXCEPT ![g] = FALSE]
             dead == {r \in ReactionIds : GeneInRule(g, rules[r]) /\ ~ReactionFunctional(rules[r], fn)}
         IN  [m EXCEPT !.fn = fn,
                       !.lb = [r \in ReactionIds |-> IF r \in dead THEN 0 ELSE m.lb[r]],
                       !.ub = [r \in ReactionIds |-> IF r \in dead THEN 0 ELSE m.ub[r]]]

\* lines 187-191: every knockout, in order
RECURSIVE KnockOuts(_, _, _)
KnockOuts(m, ks, rules) ==
    IF ks = << >> THEN m ELSE KnockOuts(KnockOut(m, Head(ks), rules), Tail(ks), rules)

\* apply_constraints(model, constraints, knockouts)
apply_constraints(m, cs, ks, rules) == KnockOuts(ApplyOverrides(m, cs), ks, rules)

\* bound * score of a bound in thousandths and a score in tenths
Scaled(bound, score) == (bound * score) \div 10

\* a scaling that multiplies both bounds by the score whatever their sign
EfluxScaleReaction_both_bounds(m, r, rules, e) ==
    IF m.err \/ rules[r] = << >> THEN m
    ELSE LET score == evaluate_gpr_expression(rules[r], e)
         IN  IF score < Constitutive
             THEN SetLowerBound(SetUpperBound(m, r, Scaled(m.ub[r], score)), r, Scaled(m.lb[r], score))
             ELSE m

\* lines 644-651: the E-Flux scaling of one reaction
EfluxScaleReaction(m, r, rules, e) ==
    IF m.err \/ rules[r] = << >> THEN m
    ELSE LET score == evaluate_gpr_expression(rules[r], e)
         IN  IF score < Constitutive
             THEN LET m1 == IF m.ub[r] > 0 THEN SetUpperBound(m, r, Scaled(m.ub[r], score)) ELSE m
                  IN  IF ~m1.err /\ m1.lb[r] < 0
                      THEN SetLowerBound(m1, r, Scaled(m1.lb[r], score))
                      ELSE m1
             ELSE m

\* lines 643-651: the scaling loop over model.reactions
RECURSIVE EfluxScaleFrom(_, _, _, _)
EfluxScaleFrom(m, i, rules, e) ==
    IF i > Len(RxnOrder) THEN m
    ELSE EfluxScaleFrom(EfluxScaleReaction(m, RxnOrder[i], rules, e), i + 1, rules, e)

CurrentModel == ModelRec(lower_bound, upper_bound, functional, FALSE)

\* the model takes the state an operation left, and the operation is recorded
Becomes(m, op) ==
    /\ lower_bound' = m.lb
    /\ upper_bound' = m.ub
    /\ functional' = m.fn
    /\ raised' = m.err
    /\ last_op' = op
    /\ pre_lb' = lower_bound
    /\ pre_ub' = upper_bound
    /\ ops' = ops + 1
    /\ UNCHANGED rxn_rule

\* a request applies its constraints and knockouts to its model; an exception
\* ends the request
ApplyConstraints ==
    /\ ~raised
    /\ ops < MaxOps
    /\ \E cs \in ConstraintInputs, ks \in KnockoutInputs :
          Becomes(apply_constraints(CurrentModel, cs, ks, rxn_rule),
                  [kind |-> "apply", constraints |-> cs, knockouts |-> ks, expression |-> << >>])

\* an E-Flux request scales the bounds of its model
EfluxScale ==
    /\ ~raised
    /\ ops < MaxOps
    /\ \E e \in EfluxMaps :
          Becomes(EfluxScaleFrom(CurrentModel, 1, rxn_rule, e),
                  [kind |-> "eflux", constraints |-> << >>, knockouts |-> << >>, expression |-> e])

\* model_from_dict: a valid model, every gene functional
InitNet ==
    /\ rxn_rule \in RuleAssignments
    /\ \E b \in [ReactionIds -> ValidBounds] :
          /\ lower_bound = [r \in ReactionIds |-> b[r][1]]
          /\ upper_bound = [r \in ReactionIds |-> b[r][2]]
          /\ pre_lb = [r \in ReactionIds |-> b[r][1]]
          /\ pre_ub = [r \in ReactionIds |-> b[r][2]]
    /\ functional = [g \in ModelGenes |-> TRUE]
    /\ last_op = [kind |-> "none", constraints |-> << >>, knockouts |-> << >>, expression |-> << >>]
    /\ raised = FALSE
    /\ ops = 0
    /\ GprIdle
    /\ CmpIdle
    /\ BenchIdle

NextNet ==
    \/ ApplyConstraints /\ UNCHANGED gprVars /\ UNCHANGED cmpVars /\ UNCHANGED benchVars
    \/ EfluxScale /\ UNCHANGED gprVars /\ UNCHANGED cmpVars /\ UNCHANGED benchVars

SpecNet == InitNet /\ [][NextNet]_vars

(***************************************************************************)
(* BenchmarkComparator.compare (benchmark.py 447-534).                     *)
(*                                                                         *)
(* Objective values and fluxes are counted in units of 1e-7, so that the   *)
(* two tolerances are whole numbers.  A flux is a record: a scalar v is    *)
(* [range |-> FALSE, min |-> v, max |-> v], an FVA pair {min, max} is      *)
(* [range |-> TRUE, min |-> .., max |-> ..].  np.sqrt(x) is kept exact as  *)
(* the record [sqrt_of |-> x].  obj_rel_diff, the quotient                 *)
(* obj_diff / max(|a|, |b|, 1e-10), is kept exact as the pair              *)
(* <<obj_diff, max(|a|, |b|)>>, where a second component 0 stands for the  *)
(* denominator 1e-10.  The numbers that the notes format are left out of   *)
(* the notes.                                                              *)
(***************************************************************************)
\* OBJECTIVE_TOLERANCE = 1e-6
OBJECTIVE_TOLERANCE == 10

\* FLUX_TOLERANCE = 1e-4
FLUX_TOLERANCE == 1000

Statuses == {"optimal", "infeasible", "error"}

\* objective_value: None, 0, 5e-7, 1e-6
ObjectiveValues == {None, Some(0), Some(5), Some(10)}

Scalar(v) == [range |-> FALSE, min |-> v, max |-> v]

Range(lo, hi) == [range |-> TRUE, min |-> lo, max |-> hi]

\* a flux of 0, 5e-5 or 2e-4, or the FVA pair {min: 0, max: 2e-4} or
\* {min: 0, max: 0}
FluxValues == {Scalar(0), Scalar(500), Scalar(2000), Range(0, 2000), Range(0, 0)}

FluxRxnIds == {"R1", "R2"}

\* fluxes: None, or a map from some reaction ids to fluxes
FluxMaps == {None} \cup {Some(f) : f \in UNION {[D -> FluxValues] : D \in SUBSET FluxRxnIds}}

\* SolveResult (benchmark.py 70-80)
SolveResults ==
    {[model_id |-> "m", method |-> "fba", solver |-> "s", status |-> st,
      objective_value |-> ov, fluxes |-> fl, solve_time_ms |-> 0] :
        st \in Statuses, ov \in ObjectiveValues, fl \in FluxMaps}

\* a default of 1 in place of 0 for a missing value
OrZero_one(x) == IF x = None THEN 1 ELSE x[1]

\* `x or 0` for an Optional[float]
OrZero(x) == IF x = None THEN 0 ELSE x[1]

\* truth value of an Optional[dict]: None and the empty dict are false
Truthy(fl) == fl # None /\ DOMAIN fl[1] # {}

\* a test that takes the early return only when neither result is optimal
NonOptimal_both(a, b) == a.status # "optimal" /\ b.status # "optimal"

\* line 453: either result is not optimal
NonOptimal(a, b) == a.status # "optimal" \/ b.status # "optimal"

\* a comparison that leaves reaction R2 out
CommonRxns_without_R2(a, b) == (DOMAIN a.fluxes[1] \cap DOMAIN b.fluxes[1]) \ {"R2"}

\* set(result_a.fluxes.keys()) & set(result_b.fluxes.keys())
CommonRxns(a, b) == DOMAIN a.fluxes[1] \cap DOMAIN b.fluxes[1]

\* lines 496-499 raise TypeError when one flux is a {min, max} pair and the
\* other a number
MixedKinds(a, b) == \E r \in CommonRxns(a, b) : a.fluxes[1][r].range # b.fluxes[1][r].range

\* a difference that adds the two fluxes
FluxDiff_sum(fa, fb) ==
    IF fa.range THEN MaxOf(Abs(fa.min + fb.min), Abs(fa.max + fb.max))
    ELSE Abs(fa.min + fb.min)

\* a difference that keeps its sign
FluxDiff_signed(fa, fb) ==
    IF fa.range THEN MaxOf(fa.min - fb.min, fa.max - fb.max)
    ELSE fa.min - fb.min

\* lines 496-499: the difference of one reaction
FluxDiff(fa, fb) ==
    IF fa.range THEN MaxOf(Abs(fa.min - fb.min), Abs(fa.max - fb.max))
    ELSE Abs(fa.min - fb.min)

RECURSIVE SumSquares(_, _, _)
SumSquares(S, a, b) ==
    IF S = {} THEN 0
    ELSE LET r == CHOOSE x \in S : TRUE
             d == FluxDiff(a.fluxes[1][r], b.fluxes[1][r])
         IN  d * d + SumSquares(S \ {r}, a, b)

\* lines 488-508: the largest difference, starting from max_diff = 0
MaxDiff(a, b) ==
    LET ds == {FluxDiff(a.fluxes[1][r], b.fluxes[1][r]) : r \in CommonRxns(a, b)}
    IN  CHOOSE d \in ds : \A x \in ds : x <= d

\* lines 502-504: max_rxn is the first reaction, in the iteration order of the
\* set, whose difference exceeds every earlier one; it stays None when no
\* difference exceeds 0.  The iteration order of a set of strings is not
\* fixed, so every reaction that attains a positive maximum may be reported.
MaxRxns(a, b) ==
    IF MaxDiff(a, b) = 0 THEN {None}
    ELSE {Some(r) : r \in {x \in CommonRxns(a, b) :
                              FluxDiff(a.fluxes[1][x], b.fluxes[1][x]) = MaxDiff(a, b)}}

\* the outcome of a call that raised
Raised == [raised |-> TRUE]

\* lines 454-470: the comparison of results that are not both optimal
NonOptimalComparison(a, b) ==
    [raised |-> FALSE,
     model_id |-> a.model_id, method |-> a.method,
     solver_a |-> a.solver, solver_b |-> b.solver,
     obj_a |-> a.objective_value, obj_b |-> b.objective_value,
     obj_diff |-> None, obj_rel_diff |-> None,
     flux_l2_norm |-> None, flux_max_diff |-> None, flux_max_diff_rxn |-> None,
     time_a_ms |-> a.solve_time_ms, time_b_ms |-> b.solve_time_ms,
     passed |-> FALSE,
     notes |-> [text |-> "Non-optimal status", status_a |-> a.status, status_b |-> b.status,
                rxn |-> None]]

\* lines 472-534: the comparison of two optimal results, with the reaction
\* mr reported as flux_max_diff_rxn
OptimalComparison(a, b, mr) ==
    LET obj_a == OrZero(a.objective_value)
        obj_b == OrZero(b.objective_value)
        obj_diff == Abs(obj_a - obj_b)
        obj_rel_diff == <<obj_diff, MaxOf(Abs(obj_a), Abs(obj_b))>>
        compared == Truthy(a.fluxes) /\ Truthy(b.fluxes) /\ CommonRxns(a, b) # {}
        flux_l2 == IF compared THEN Some([sqrt_of |-> SumSquares(CommonRxns(a, b), a, b)]) ELSE None
        flux_max == IF compared THEN Some(MaxDiff(a, b)) ELSE None
        flux_max_rxn == IF compared THEN mr ELSE None
        passed == obj_diff < OBJECTIVE_TOLERANCE
        plain == [text |-> "", status_a |-> "", status_b |-> "", rxn |-> None]
        notes == IF ~passed
                 THEN [plain EXCEPT !.text = "Objective difference exceeds tolerance"]
                 ELSE IF flux_max # None /\ flux_max[1] # 0 /\ flux_max[1] > FLUX_TOLERANCE
                 THEN [plain EXCEPT !.text = "Large flux difference at", !.rxn = flux_max_rxn]
                 ELSE plain
    IN  [raised |-> FALSE,
         model_id |-> a.model_id, method |-> a.method,
         solver_a |-> a.solver, solver_b |-> b.solver,
         obj_a |-> Some(obj_a), obj_b |-> Some(obj_b),
         obj_diff |-> Some(obj_diff), obj_rel_diff |-> Some(obj_rel_diff),
         flux_l2_norm |-> flux_l2, flux_max_diff |-> flux_max, flux_max_diff_rxn |-> flux_max_rxn,
         time_a_ms |-> a.solve_time_ms, time_b_ms |-> b.solve_time_ms,
         passed |-> passed,
         notes |-> notes]

\* compare(result_a, result_b): the outcomes the call can have
compare(a, b) ==
    IF NonOptimal(a, b) THEN {NonOptimalComparison(a, b)}
    ELSE IF Truthy(a.fluxes) /\ Truthy(b.fluxes) /\ CommonRxns(a, b) # {}
    THEN IF MixedKinds(a, b) THEN {Raised}
         ELSE {OptimalComparison(a, b, mr) : mr \in MaxRxns(a, b)}
    ELSE {OptimalComparison(a, b, None)}

\* a call of compare on the two results
Compare ==
    /\ comparison = None
    /\ \E c \in compare(result_a, result_b) : comparison' = Some(c)
    /\ UNCHANGED <<result_a, result_b>>

InitCmp ==
    /\ result_a \in SolveResults
    /\ result_b \in SolveResults
    /\ comparison = None
    /\ GprIdle
    /\ NetIdle
    /\ BenchIdle

NextCmp == Compare /\ UNCHANGED gprVars /\ UNCHANGED netVars /\ UNCHANGED benchVars

SpecCmp == InitCmp /\ [][NextCmp]_vars

(***************************************************************************)
(* BiGGModelCatalog.get_benchmark_models (benchmark.py 177-209).           *)
(*                                                                         *)
(* A ModelInfo is kept as its bigg_id (here the position it had in the     *)
(* catalog) and its reaction_count.                                        *)
(***************************************************************************)
\* largest number of models in an enumerated catalog
MaxCatalog == 4

\* number of models of the one large catalog
LargeCatalogSize == 30

ModelInfo(id, n) == [bigg_id |-> id, reaction_count |-> n]

\* reaction counts of the enumerated catalogs
ReactionCounts == {5, 10, 20}

\* every catalog of at most MaxCatalog models
SmallCatalogs ==
    UNION {{[i \in 1..n |-> ModelInfo(i, c[i])] : c \in [1..n -> ReactionCounts]} : n \in 0..MaxCatalog}

\* a catalog of 30 models in decreasing order of size
LargeCatalog == [i \in 1..LargeCatalogSize |-> ModelInfo(i, 200 - i)]

Catalogs == SmallCatalogs \cup {LargeCatalog}

\* what fetch_catalog can leave in self.catalog
FetchedCatalogs == {c \in SmallCatalogs : Len(c) <= 2}

MinReactionsInputs == {0, 10}

MaxReactionsInputs == {10, 5000}

LimitInputs == {0, 1, 2, 3, 22}

\* line 191-194: the models within the range, in catalog order
InRange(m, lo, hi) == lo <= m.reaction_count /\ m.reaction_count <= hi

RECURSIVE FilterRange(_, _, _)
FilterRange(c, lo, hi) ==
    IF c = << >> THEN << >>
    ELSE IF InRange(Head(c), lo, hi) THEN <<Head(c)>> \o FilterRange(Tail(c), lo, hi)
    ELSE FilterRange(Tail(c), lo, hi)

\* insertion after every model that is not larger: the sort is stable
RECURSIVE InsertBySize(_, _)
InsertBySize(m, sorted) ==
    IF sorted = << >> THEN <<m>>
    ELSE IF Head(sorted).reaction_count <= m.reaction_count
    THEN <<Head(sorted)>> \o InsertBySize(m, Tail(sorted))
    ELSE <<m>> \o sorted

\* a sort that leaves the list as it is
SortByReactionCount_unsorted(c) == c

\* line 197: filtered.sort(key=lambda m: m.reaction_count)
RECURSIVE SortByReactionCount(_)
SortByReactionCount(c) ==
    IF c = << >> THEN << >>
    ELSE InsertBySize(c[Len(c)], SortByReactionCount(SubSeq(c, 1, Len(c) - 1)))

\* the triples <<i, n, limit>> of the model for which the double product
\* i * (n / limit) lies below the whole number i * n / limit:
\* 11 * (30 / 22) is 14.999999999999998
RoundedBelow == {<<11, 30, 22>>}

\* lines 203-206: int(i * step) with step = n / limit, in double arithmetic;
\* for every other triple with n <= 31 the truncation is the floor of i*n/limit
PyIntOfProduct(i, n, lim) ==
    ((i * n) \div lim) - (IF <<i, n, lim>> \in RoundedBelow THEN 1 ELSE 0)

Returned(ms) == [raised |-> FALSE, models |-> ms]

RaisedOutcome == [raised |-> TRUE, models |-> << >>]

\* lines 190-209 on a catalog that is not empty, or after fetch_catalog
get_benchmark_models(c, lo, hi, lim) ==
    LET filtered == SortByReactionCount(FilterRange(c, lo, hi))
    IN  IF Len(filtered) <= lim THEN Returned(filtered)
        ELSE IF lim = 0 THEN RaisedOutcome
        ELSE Returned([k \in 1..lim |-> filtered[PyIntOfProduct(k - 1, Len(filtered), lim) + 1]])

\* a call on a catalog that is already loaded
GetBenchmarkModels ==
    /\ selected = None
    /\ catalog # << >>
    /\ selected' = Some(get_benchmark_models(catalog, min_reactions, max_reactions, limit))
    /\ UNCHANGED <<catalog, min_reactions, max_reactions, limit, fetched>>

\* a call on an empty catalog: fetch_catalog loads one first (lines 187-188)
GetBenchmarkModelsFetching ==
    /\ selected = None
    /\ catalog = << >>
    /\ fetched' = TRUE
    /\ \E c \in FetchedCatalogs :
          /\ catalog' = c
          /\ selected' = Some(get_benchmark_models(c, min_reactions, max_reactions, limit))
    /\ UNCHANGED <<min_reactions, max_reactions, limit>>

\* a call on an empty catalog whose fetch_catalog raises
GetBenchmarkModelsFetchFails ==
    /\ selected = None
    /\ catalog = << >>
    /\ fetched' = TRUE
    /\ selected' = Some(RaisedOutcome)
    /\ UNCHANGED <<catalog, min_reactions, max_reactions, limit>>

InitCat ==
    /\ catalog \in Catalogs
    /\ min_reactions \in MinReactionsInputs
    /\ max_reactions \in MaxReactionsInputs
    /\ limit \in LimitInputs
    /\ fetched = FALSE
    /\ selected = None
    /\ RunIdle
    /\ ApiIdle
    /\ GprIdle
    /\ NetIdle
    /\ CmpIdle
    /\ ExtIdle

NextCat ==
    \/ GetBenchmarkModels /\ UNCHANGED gprVars /\ UNCHANGED netVars /\ UNCHANGED cmpVars /\ UNCHANGED runVars /\ UNCHANGED apiVars /\ UNCHANGED extVars
    \/ GetBenchmarkModelsFetching /\ UNCHANGED gprVars /\ UNCHANGED netVars /\ UNCHANGED cmpVars /\ UNCHANGED runVars /\ UNCHANGED apiVars /\ UNCHANGED extVars
    \/ GetBenchmarkModelsFetchFails /\ UNCHANGED gprVars /\ UNCHANGED netVars /\ UNCHANGED cmpVars /\ UNCHANGED runVars /\ UNCHANGED apiVars /\ UNCHANGED extVars

SpecCat == InitCat /\ [][NextCat]_vars

(***************************************************************************)
(* COBRApyBenchmark.run_benchmark (benchmark.py 394-429) with load_model   *)
(* (223-230) and the solve_* methods (232-392).                            *)
(*                                                                         *)
(* Every object load_model returns is numbered in the order of loading;    *)
(* a result records the number of the model object its solve was given.    *)
(***************************************************************************)
\* largest number of models in the list passed to run_benchmark
MaxModels == 2

\* the lists of ModelInfo passed in: bigg ids 1..n
ModelLists == {[i \in 1..n |-> i] : n \in 0..MaxModels}

MethodFba == <<"f", "b", "a">>

MethodPfba == <<"p", "f", "b", "a">>

MethodFva == <<"f", "v", "a">>

MethodFva90 == <<"f", "v", "a", "_", "9", "0">>

MethodFvaX == <<"f", "v", "a", "_", "x">>

MethodFvaBlank == <<"f", "v", "a", "_">>

MethodGimme == <<"g", "i", "m", "m", "e">>

\* the lists of method names passed in
MethodLists ==
    {<<MethodFba>>, <<MethodFba, MethodPfba>>, <<MethodPfba, MethodFva90>>, <<MethodFva>>,
     <<MethodFvaX>>, <<MethodFba, MethodFvaX>>, <<MethodGimme, MethodFba>>,
     <<MethodFvaBlank, MethodPfba>>}

\* the lists of solver names passed in; "nosuch" is a solver cobra does not know
SolverLists == {<<"glpk">>, <<"glpk", "nosuch">>}

\* method.startswith("fva")
StartsWithFva(method) == Len(method) >= 3 /\ SubSeq(method, 1, 3) = MethodFva

\* int(s): an optional sign and decimal digits, else ValueError (None)
PyInt(s) ==
    LET t == PyStrip(s)
        signed == t # << >> /\ (t[1] = "-" \/ t[1] = "+")
        digits == IF signed THEN Tail(t) ELSE t
    IN  IF digits # << >> /\ (\A i \in 1..Len(digits) : IsDigit(digits[i]))
        THEN Some(IF signed /\ t[1] = "-" THEN 0 - NatVal(digits) ELSE NatVal(digits))
        ELSE None

\* line 418: the fraction of an fva method in percent; None when int() raises
FvaFraction(method) ==
    IF Contains(method, <<"_">>) THEN PyInt(PySplit(method, <<"_">>)[2]) ELSE Some(90)

\* lines 414-422: which solve a method name selects
MethodKind(method) ==
    IF method = MethodFba THEN "fba"
    ELSE IF method = MethodPfba THEN "pfba"
    ELSE IF StartsWithFva(method) THEN "fva"
    ELSE "unknown"

\* the status a solve can return: setting an unknown solver raises inside the
\* try block; solve_fba passes a non-optimal solution status on; solve_pfba
\* and solve_fva return "optimal" unless an exception was caught
SolveStatuses(kind, solver) ==
    IF solver # "glpk" THEN {"error"}
    ELSE IF kind = "fba" THEN {"optimal", "infeasible", "error"}
    ELSE {"optimal", "error"}

\* lines 411-426: the loop position after the tuple (me, so) of the model
AdvanceTuple ==
    IF so < Len(solvers) THEN
        /\ so' = so + 1
        /\ UNCHANGED <<mi, me, model_obj, run_pc>>
    ELSE IF me < Len(methods) THEN
        /\ so' = 1
        /\ me' = me + 1
        /\ UNCHANGED <<mi, model_obj, run_pc>>
    ELSE
        /\ so' = 1
        /\ me' = 1
        /\ mi' = mi + 1
        /\ model_obj' = None
        /\ run_pc' = "load"

\* lines 405-408: load_model returns a model
LoadModel ==
    /\ run_pc = "load"
    /\ mi <= Len(models)
    /\ loaded' = loaded + 1
    /\ model_obj' = Some(loaded + 1)
    /\ run_pc' = "solve"
    /\ UNCHANGED <<models, methods, solvers, mi, me, so, results>>

\* lines 406-408 and 225-230: load_model caught an exception and returned
\* None; the model is skipped
LoadModelFails ==
    /\ run_pc = "load"
    /\ mi <= Len(models)
    /\ mi' = mi + 1
    /\ UNCHANGED <<models, methods, solvers, me, so, model_obj, loaded, results, run_pc>>

\* lines 414-426: one solve of a known method, its result appended
SolveTuple ==
    /\ run_pc = "solve"
    /\ MethodKind(methods[me]) # "unknown"
    /\ MethodKind(methods[me]) = "fva" => FvaFraction(methods[me]) # None
    /\ \E st \in SolveStatuses(MethodKind(methods[me]), solvers[so]) :
          results' = Append(results,
                            [model_id |-> models[mi], method |-> MethodKind(methods[me]),
                             solver |-> solvers[so], status |-> st, obj |-> model_obj[1]])
    /\ AdvanceTuple
    /\ UNCHANGED <<models, methods, solvers, loaded>>

\* lines 422-424: an unknown method is logged and the tuple left out
SkipUnknownMethod ==
    /\ run_pc = "solve"
    /\ MethodKind(methods[me]) = "unknown"
    /\ AdvanceTuple
    /\ UNCHANGED <<models, methods, solvers, loaded, results>>

\* line 418: int() of the text after "_" raises ValueError, outside any try
FvaFractionRaises ==
    /\ run_pc = "solve"
    /\ MethodKind(methods[me]) = "fva"
    /\ FvaFraction(methods[me]) = None
    /\ run_pc' = "raised"
    /\ UNCHANGED <<models, methods, solvers, mi, me, so, model_obj, loaded, results>>

\* lines 428-429: return results
ReturnResults ==
    /\ run_pc = "load"
    /\ mi > Len(models)
    /\ run_pc' = "returned"
    /\ UNCHANGED <<models, methods, solvers, mi, me, so, model_obj, loaded, results>>

InitRun ==
    /\ models \in ModelLists
    /\ methods \in MethodLists
    /\ solvers \in SolverLists
    /\ mi = 1
    /\ me = 1
    /\ so = 1
    /\ model_obj = None
    /\ loaded = 0
    /\ results = << >>
    /\ run_pc = "load"
    /\ CatIdle
    /\ ApiIdle
    /\ GprIdle
    /\ NetIdle
    /\ CmpIdle
    /\ ExtIdle

NextRun ==
    \/ LoadModel /\ UNCHANGED gprVars /\ UNCHANGED netVars /\ UNCHANGED cmpVars /\ UNCHANGED catVars /\ UNCHANGED apiVars /\ UNCHANGED extVars
    \/ LoadModelFails /\ UNCHANGED gprVars /\ UNCHANGED netVars /\ UNCHANGED cmpVars /\ UNCHANGED catVars /\ UNCHANGED apiVars /\ UNCHANGED extVars
    \/ SolveTuple /\ UNCHANGED gprVars /\ UNCHANGED netVars /\ UNCHANGED cmpVars /\ UNCHANGED catVars /\ UNCHANGED apiVars /\ UNCHANGED extVars
    \/ SkipUnknownMethod /\ UNCHANGED gprVars /\ UNCHANGED netVars /\ UNCHANGED cmpVars /\ UNCHANGED catVars /\ UNCHANGED apiVars /\ UNCHANGED extVars
    \/ FvaFractionRaises /\ UNCHANGED gprVars /\ UNCHANGED netVars /\ UNCHANGED cmpVars /\ UNCHANGED catVars /\ UNCHANGED apiVars /\ UNCHANGED extVars
    \/ ReturnResults /\ UNCHANGED gprVars /\ UNCHANGED netVars /\ UNCHANGED cmpVars /\ UNCHANGED catVars /\ UNCHANGED apiVars /\ UNCHANGED extVars

SpecRun == InitRun /\ [][NextRun]_vars

(***************************************************************************)
(* The formulation endpoints solve_fba, solve_pfba, solve_fva, solve_moma, *)
(* solve_gimme, solve_imat and solve_eflux (api.py 236-672): the imports   *)
(* before the try block, the steps inside it, and the response.            *)
(*                                                                         *)
(* A number returned by the optimizer is kept as the string "value", the   *)
(* flux or range map of a solution as the set of its reaction ids.         *)
(***************************************************************************)
FormulationMethods == {"fba", "pfba", "fva", "moma", "gimme", "imat", "eflux"}

\* request.reference_fluxes of a MOMA request: None, {} or a flux per reaction
ReferenceFluxes == {None, Some(<< >>), Some(("R1" :> 10) @@ ("R2" :> 0))}

\* a request: the endpoint called and, for MOMA, its reference_fluxes
Requests ==
    {[method |-> m, reference_fluxes |-> None] : m \in FormulationMethods \ {"moma"}}
    \cup {[method |-> "moma", reference_fluxes |-> rf] : rf \in ReferenceFluxes}

\* line 407: if request.reference_fluxes
ReferenceGiven(req) == req.reference_fluxes # None /\ req.reference_fluxes[1] # << >>

\* MOMA applying the constraints before its wild-type solve
Steps_apply_first(req) ==
    IF req.method = "moma"
    THEN IF ReferenceGiven(req)
         THEN <<"build", "apply", "library_solve">>
         ELSE <<"build", "apply", "reference_solve", "library_solve">>
    ELSE <<"build", "apply", "solve">>

\* the statuses an optimizer run can report
OptimizerStatuses == {"optimal", "infeasible", "unbounded"}

\* str(e) of an exception raised by a step: an exception without arguments
\* has the empty string
Messages == {"", "msg"}

\* the statements inside the try block of each endpoint, in order
Steps(req) ==
    CASE req.method = "fba"   -> <<"build", "apply", "solve">>
      [] req.method = "pfba"  -> <<"build", "apply", "library_solve">>
      [] req.method = "fva"   -> <<"build", "apply", "library_solve", "objective_solve">>
      [] req.method = "moma"  -> IF ReferenceGiven(req)
                                 THEN <<"build", "apply", "library_solve">>
                                 ELSE <<"build", "reference_solve", "apply", "library_solve">>
      [] req.method = "gimme" -> <<"build", "score", "first_solve", "formulate", "solve">>
      [] req.method = "imat"  -> <<"build", "score", "formulate", "solve">>
      [] req.method = "eflux" -> <<"build", "scale", "solve">>

\* the steps that run the optimizer
SolveSteps == {"solve", "library_solve", "objective_solve", "reference_solve", "first_solve"}

\* the except clause: SolverResponse / FVAResponse(status="error", error=str(e))
ErrorResponse(msg) ==
    [status |-> "error", error |-> Some(msg), objective_value |-> None, fluxes |-> {}]

\* the return statement of the try block: solve_fva returns the literal
\* "optimal" (line 372), every other endpoint solution.status of its last solve
SuccessResponse(req, reps) ==
    [status |-> IF req.method = "fva" THEN "optimal" ELSE reps[Len(reps)].status,
     error |-> None,
     objective_value |-> Some("value"),
     fluxes |-> {"R1", "R2"}]

\* lines 244-245 (and 291-293, 337-339, 397-399, 449-450, 531-532, 634-635):
\* the imports before the try block succeed
ImportsSucceed ==
    /\ api_pc = "entry"
    /\ cobra_available
    /\ api_pc' = "try"
    /\ step' = 1
    /\ UNCHANGED <<request, cobra_available, reports, caught, response>>

\* import cobra raises ImportError before the try block is entered
ImportRaises ==
    /\ api_pc = "entry"
    /\ ~cobra_available
    /\ api_pc' = "raised"
    /\ UNCHANGED <<request, cobra_available, step, reports, caught, response>>

\* a statement of the try block raises; the except clause answers
StepRaises ==
    /\ api_pc = "try"
    /\ step <= Len(Steps(request))
    /\ \E msg \in Messages :
          /\ caught' = Some([message |-> msg, origin |-> "step"])
          /\ response' = Some(ErrorResponse(msg))
    /\ api_pc' = "responded"
    /\ UNCHANGED <<request, cobra_available, step, reports>>

\* a statement that does not run the optimizer completes
StepCompletes ==
    /\ api_pc = "try"
    /\ step <= Len(Steps(request))
    /\ Steps(request)[step] \notin SolveSteps
    /\ step' = step + 1
    /\ UNCHANGED <<request, cobra_available, api_pc, reports, caught, response>>

\* the optimizer completes and reports a status that the endpoint does not
\* turn into an exception
SolveReports ==
    /\ api_pc = "try"
    /\ step <= Len(Steps(request))
    /\ Steps(request)[step] \in SolveSteps
    /\ \E st \in OptimizerStatuses :
          /\ Steps(request)[step] = "first_solve" => st = "optimal"
          /\ reports' = Append(reports, [step |-> Steps(request)[step], status |-> st])
    /\ step' = step + 1
    /\ UNCHANGED <<request, cobra_available, api_pc, caught, response>>

\* lines 470-472: the first solve of GIMME is not optimal and the endpoint
\* raises ValueError itself
GimmeRaisesNotOptimal ==
    /\ api_pc = "try"
    /\ step <= Len(Steps(request))
    /\ Steps(request)[step] = "first_solve"
    /\ \E st \in OptimizerStatuses \ {"optimal"} :
          reports' = Append(reports, [step |-> "first_solve", status |-> st])
    /\ caught' = Some([message |-> "Model infeasible", origin |-> "code"])
    /\ response' = Some(ErrorResponse("Model infeasible"))
    /\ api_pc' = "responded"
    /\ UNCHANGED <<request, cobra_available, step>>

\* pfba, flux_variability_analysis or moma of cobra raises after the optimizer
\* reported a status that is not optimal
LibraryRaisesNotOptimal ==
    /\ api_pc = "try"
    /\ step <= Len(Steps(request))
    /\ Steps(request)[step] = "library_solve"
    /\ \E st \in OptimizerStatuses \ {"optimal"} :
          reports' = Append(reports, [step |-> "library_solve", status |-> st])
    /\ caught' = Some([message |-> "msg", origin |-> "library"])
    /\ response' = Some(ErrorResponse("msg"))
    /\ api_pc' = "responded"
    /\ UNCHANGED <<request, cobra_available, step>>

\* the return statement at the end of the try block
Respond ==
    /\ api_pc = "try"
    /\ step > Len(Steps(request))
    /\ response' = Some(SuccessResponse(request, reports))
    /\ api_pc' = "responded"
    /\ UNCHANGED <<request, cobra_available, step, reports, caught>>

InitApi ==
    /\ request \in Requests
    /\ cobra_available \in BOOLEAN
    /\ api_pc = "entry"
    /\ step = 0
    /\ reports = << >>
    /\ caught = None
    /\ response = None
    /\ CatIdle
    /\ RunIdle
    /\ GprIdle
    /\ NetIdle
    /\ CmpIdle
    /\ ExtIdle

NextApi ==
    \/ ImportsSucceed /\ UNCHANGED gprVars /\ UNCHANGED netVars /\ UNCHANGED cmpVars /\ UNCHANGED catVars /\ UNCHANGED runVars /\ UNCHANGED extVars
    \/ ImportRaises /\ UNCHANGED gprVars /\ UNCHANGED netVars /\ UNCHANGED cmpVars /\ UNCHANGED catVars /\ UNCHANGED runVars /\ UNCHANGED extVars
    \/ StepRaises /\ UNCHANGED gprVars /\ UNCHANGED netVars /\ UNCHANGED cmpVars /\ UNCHANGED catVars /\ UNCHANGED runVars /\ UNCHANGED extVars
    \/ StepCompletes /\ UNCHANGED gprVars /\ UNCHANGED netVars /\ UNCHANGED cmpVars /\ UNCHANGED catVars /\ UNCHANGED runVars /\ UNCHANGED extVars
    \/ SolveReports /\ UNCHANGED gprVars /\ UNCHANGED netVars /\ UNCHANGED cmpVars /\ UNCHANGED catVars /\ UNCHANGED runVars /\ UNCHANGED extVars
    \/ GimmeRaisesNotOptimal /\ UNCHANGED gprVars /\ UNCHANGED netVars /\ UNCHANGED cmpVars /\ UNCHANGED catVars /\ UNCHANGED runVars /\ UNCHANGED extVars
    \/ LibraryRaisesNotOptimal /\ UNCHANGED gprVars /\ UNCHANGED netVars /\ UNCHANGED cmpVars /\ UNCHANGED catVars /\ UNCHANGED runVars /\ UNCHANGED extVars
    \/ Respond /\ UNCHANGED gprVars /\ UNCHANGED netVars /\ UNCHANGED cmpVars /\ UNCHANGED catVars /\ UNCHANGED runVars /\ UNCHANGED extVars

SpecApi == InitApi /\ [][NextApi]_vars

(***************************************************************************)
(* Building a model from model data: model_from_dict (api.py 147-174),     *)
(* which hands the data to cobra.io.from_json, and run_cobrapy_benchmark   *)
(* (benchmark.py 718-770), which builds the model itself.                  *)
(*                                                                         *)
(* Model data is a record of the declared metabolite ids and the list of   *)
(* reactions, each reaction being the set of metabolite ids it references. *)
(***************************************************************************)
MetaboliteIds == {"m1", "m2"}

ReactionLists == UNION {[1..n -> SUBSET MetaboliteIds] : n \in 0..MaxModelReactions}

ModelDatas == [metabolites : SUBSET MetaboliteIds, reactions : ReactionLists]

Builders == {"model_from_dict", "run_cobrapy_benchmark"}

\* benchmark.py 755-759: a referenced metabolite is taken into the reaction
\* only if the model has it
KeptMetabolites(refs, mets) == {m \in refs : m \in mets}

\* benchmark.py 736-743 / cobra.io.from_json: the declared metabolites are added
AddMetabolites ==
    /\ build_pc = "metabolites"
    /\ built' = [built EXCEPT !.metabolites = model_json.metabolites]
    /\ ri' = 1
    /\ build_pc' = "reactions"
    /\ UNCHANGED <<model_json, builder>>

\* benchmark.py 745-765: the next reaction is added with the metabolites kept
AddReaction ==
    /\ build_pc = "reactions"
    /\ builder = "run_cobrapy_benchmark"
    /\ ri <= Len(model_json.reactions)
    /\ built' = [built EXCEPT !.reactions =
                    Append(@, KeptMetabolites(model_json.reactions[ri], built.metabolites))]
    /\ ri' = ri + 1
    /\ UNCHANGED <<model_json, builder, build_pc>>

\* api.py 168: cobra.io.from_json adds the next reaction, all of whose
\* metabolites the model has
FromJsonAddReaction ==
    /\ build_pc = "reactions"
    /\ builder = "model_from_dict"
    /\ ri <= Len(model_json.reactions)
    /\ model_json.reactions[ri] \subseteq built.metabolites
    /\ built' = [built EXCEPT !.reactions = Append(@, model_json.reactions[ri])]
    /\ ri' = ri + 1
    /\ UNCHANGED <<model_json, builder, build_pc>>

\* api.py 168: cobra.io.from_json looks up a metabolite the model does not
\* have and raises KeyError; the endpoint answers with status "error"
FromJsonRaises ==
    /\ build_pc = "reactions"
    /\ builder = "model_from_dict"
    /\ ri <= Len(model_json.reactions)
    /\ ~(model_json.reactions[ri] \subseteq built.metabolites)
    /\ build_pc' = "error"
    /\ UNCHANGED <<model_json, builder, built, ri>>

\* benchmark.py 770-778 / api.py 258: the model that was built is solved
SolveBuilt ==
    /\ build_pc = "reactions"
    /\ ri > Len(model_json.reactions)
    /\ build_pc' = "solved"
    /\ UNCHANGED <<model_json, builder, built, ri>>

InitBuild ==
    /\ model_json \in ModelDatas
    /\ builder \in Builders
    /\ built = [metabolites |-> {}, reactions |-> << >>]
    /\ ri = 0
    /\ build_pc = "metabolites"
    /\ CoreIdle
    /\ FetchIdle
    /\ OmicsIdle
    /\ SolveIdle
    /\ ConcIdle

NextBuild ==
    \/ AddMetabolites /\ UNCHANGED coreVars /\ UNCHANGED fetchVars /\ UNCHANGED omicsVars /\ UNCHANGED solveVars /\ UNCHANGED concVars
    \/ AddReaction /\ UNCHANGED coreVars /\ UNCHANGED fetchVars /\ UNCHANGED omicsVars /\ UNCHANGED solveVars /\ UNCHANGED concVars
    \/ FromJsonAddReaction /\ UNCHANGED coreVars /\ UNCHANGED fetchVars /\ UNCHANGED omicsVars /\ UNCHANGED solveVars /\ UNCHANGED concVars
    \/ FromJsonRaises /\ UNCHANGED coreVars /\ UNCHANGED fetchVars /\ UNCHANGED omicsVars /\ UNCHANGED solveVars /\ UNCHANGED concVars
    \/ SolveBuilt /\ UNCHANGED coreVars /\ UNCHANGED fetchVars /\ UNCHANGED omicsVars /\ UNCHANGED solveVars /\ UNCHANGED concVars

SpecBuild == InitBuild /\ [][NextBuild]_vars

(***************************************************************************)
(* BiGGModelCatalog.fetch_catalog (benchmark.py 113-150): the catalog file *)
(* of the cache directory, the network, and the catalog of the instance.   *)
(*                                                                         *)
(* A JSON object is the set of its <<key, value>> pairs.  An entry of the  *)
(* "results" list of the server is a record of optional fields.            *)
(***************************************************************************)
\* the entries the server can answer with: bigg_id or reaction_count may be
\* missing
ResultEntries == [bigg_id : {None, Some(1), Some(2)}, reaction_count : {None, Some(5)}]

\* the "results" lists of at most MaxResults entries
ResponseBodies == UNION {[1..n -> ResultEntries] : n \in 0..MaxResults}

\* the ways the request fails before any entry is read: requests.get raises,
\* raise_for_status raises, response.json raises
RequestFailures == {"get", "raise_for_status", "json"}

\* line 147: asdict(m), as the JSON object written
AsDict(m) == {<<"bigg_id", m.bigg_id>>, <<"reaction_count", m.reaction_count>>}

\* line 147: json.dump([asdict(m) for m in self.catalog], f)
Dump(cat) == [i \in 1..Len(cat) |-> AsDict(cat[i])]

\* d[k] of a JSON object
Value(d, k) == (CHOOSE p \in d : p[1] = k)[2]

\* line 124: ModelInfo(**m) for m in data
Load(data) ==
    [i \in 1..Len(data) |-> ModelInfo(Value(data[i], "bigg_id"), Value(data[i], "reaction_count"))]

\* the files catalog.json that a cache directory can hold before the first call
CatalogFiles == {None, Some(Dump(<< >>)), Some(Dump(<<ModelInfo(1, 5)>>))}

\* line 121 with no regard to force_refresh
UseCache_ignoring_force(file, force) == file # None

\* line 121: catalog_file.exists() and not force_refresh
UseCache(file, force) == file # None /\ ~force

\* line 138: model["bigg_id"] raises KeyError when the key is missing
MissingId(body) == {i \in DOMAIN body : body[i].bigg_id = None}

\* lines 134-143: the entries appended to self.catalog before the loop ends
\* or raises; a missing reaction_count is 0
Appended(body) ==
    LET n == IF MissingId(body) = {} THEN Len(body)
             ELSE (CHOOSE i \in MissingId(body) : \A j \in MissingId(body) : i <= j) - 1
    IN  [i \in 1..n |->
            ModelInfo(body[i].bigg_id[1],
                      IF body[i].reaction_count = None THEN 0 ELSE body[i].reaction_count[1])]

\* what is known of a call: its argument, whether it returned or raised, the
\* list returned, whether the network was contacted, and the file, the list
\* last fetched and the catalog of the instance as they were before the call
CallRecord(force, outcome, value, contacted) ==
    Some([force_refresh |-> force, outcome |-> outcome, value |-> value,
          contacted |-> contacted, file_before |-> catalog_file,
          fetched_before |-> last_fetched, inst_before |-> inst_catalog])

\* lines 121-126: the catalog is read from the file
FetchCatalogFromCache ==
    /\ fetches < MaxFetches
    /\ \E force \in BOOLEAN :
          /\ UseCache(catalog_file, force)
          /\ inst_catalog' = Load(catalog_file[1])
          /\ fetch_call' = CallRecord(force, "returned", Load(catalog_file[1]), FALSE)
    /\ fetches' = fetches + 1
    /\ UNCHANGED <<catalog_file, last_fetched>>

\* lines 128-150: the catalog is fetched, stored in the instance and written
\* to the file
FetchCatalogFromNetwork ==
    /\ fetches < MaxFetches
    /\ \E force \in BOOLEAN, body \in ResponseBodies :
          /\ ~UseCache(catalog_file, force)
          /\ MissingId(body) = {}
          /\ inst_catalog' = Appended(body)
          /\ catalog_file' = Some(Dump(Appended(body)))
          /\ last_fetched' = Some(Appended(body))
          /\ fetch_call' = CallRecord(force, "returned", Appended(body), TRUE)
    /\ fetches' = fetches + 1

\* lines 130-133: the request raises before self.catalog is touched
FetchCatalogRequestFails ==
    /\ fetches < MaxFetches
    /\ \E force \in BOOLEAN, failure \in RequestFailures :
          /\ ~UseCache(catalog_file, force)
          /\ fetch_call' = CallRecord(force, "raised", failure, TRUE)
    /\ fetches' = fetches + 1
    /\ UNCHANGED <<catalog_file, inst_catalog, last_fetched>>

\* lines 134-143: an entry without bigg_id raises KeyError inside the loop;
\* self.catalog holds the entries before it
FetchCatalogEntryFails ==
    /\ fetches < MaxFetches
    /\ \E force \in BOOLEAN, body \in ResponseBodies :
          /\ ~UseCache(catalog_file, force)
          /\ MissingId(body) # {}
          /\ inst_catalog' = Appended(body)
          /\ fetch_call' = CallRecord(force, "raised", "KeyError", TRUE)
    /\ fetches' = fetches + 1
    /\ UNCHANGED <<catalog_file, last_fetched>>

\* lines 108-111: a new BiGGModelCatalog on the same cache directory
NewCatalog ==
    /\ inst_catalog # << >>
    /\ inst_catalog' = << >>
    /\ UNCHANGED <<catalog_file, last_fetched, fetch_call, fetches>>

InitFetch ==
    /\ catalog_file \in CatalogFiles
    /\ inst_catalog = << >>
    /\ last_fetched = None
    /\ fetch_call = None
    /\ fetches = 0
    /\ CoreIdle
    /\ BuildIdle
    /\ OmicsIdle
    /\ SolveIdle
    /\ ConcIdle

NextFetch ==
    \/ FetchCatalogFromCache /\ UNCHANGED coreVars /\ UNCHANGED buildVars /\ UNCHANGED omicsVars /\ UNCHANGED solveVars /\ UNCHANGED concVars
    \/ FetchCatalogFromNetwork /\ UNCHANGED coreVars /\ UNCHANGED buildVars /\ UNCHANGED omicsVars /\ UNCHANGED solveVars /\ UNCHANGED concVars
    \/ FetchCatalogRequestFails /\ UNCHANGED coreVars /\ UNCHANGED buildVars /\ UNCHANGED omicsVars /\ UNCHANGED solveVars /\ UNCHANGED concVars
    \/ FetchCatalogEntryFails /\ UNCHANGED coreVars /\ UNCHANGED buildVars /\ UNCHANGED omicsVars /\ UNCHANGED solveVars /\ UNCHANGED concVars
    \/ NewCatalog /\ UNCHANGED coreVars /\ UNCHANGED buildVars /\ UNCHANGED omicsVars /\ UNCHANGED solveVars /\ UNCHANGED concVars

SpecFetch == InitFetch /\ [][NextFetch]_vars

(***************************************************************************)
(* solve_gimme (api.py 442-516) and solve_imat (api.py 522-620): scoring   *)
(* the reactions, formulating the problem, and the response.               *)
(*                                                                         *)
(* Scores and thresholds are counted in tenths.  The optimization problem  *)
(* of the model is a record of the variables and constraints added to it   *)
(* and of its objective; the objective the model was built with is the     *)
(* record ConfiguredObjective.  A solution is kept as the problem solved.  *)
(***************************************************************************)
\* gene_reaction_rule of the reactions of the models of omics requests
OmicsRules ==
    RuleAssignments \cup
    {("R1" :> << >> @@ "R2" :> << >>),
     ("R1" :> RuleAandB @@ "R2" :> <<"a">>),
     ("R1" :> <<"b">> @@ "R2" :> RuleAorB)}

\* request.threshold: 0.0, 0.2, 0.5 and 1.2
Thresholds == {0, 2, 5, 12}

\* request.high_threshold: 0.5 and 0.8
HighThresholds == {5, 8}

\* request.low_threshold: 0.2, 0.5 and 1.0
LowThresholds == {2, 5, 10}

OmicsRequests ==
    {[method |-> "gimme", rules |-> ru, expression |-> e,
      threshold |-> t, high_threshold |-> 8, low_threshold |-> 2] :
        ru \in OmicsRules, e \in EfluxMaps, t \in Thresholds}
    \cup
    {[method |-> "imat", rules |-> ru, expression |-> e,
      threshold |-> 2, high_threshold |-> h, low_threshold |-> l] :
        ru \in OmicsRules, e \in EfluxMaps, h \in HighThresholds, l \in LowThresholds}

\* the objective the model has after model_from_dict
ConfiguredObjective == [kind |-> "configured", terms |-> << >>, direction |-> "max"]

\* the problem of the model after model_from_dict
ConfiguredProblem ==
    [variables |-> {}, constraints |-> {}, objective |-> ConfiguredObjective]

\* lines 458-464: reaction_expression of GIMME
ReactionExpression(rules, e) ==
    [r \in ReactionIds |->
        IF rules[r] # << >> THEN evaluate_gpr_expression(rules[r], e) ELSE Constitutive]

\* a test that also penalizes a reaction whose score equals the threshold
GimmePenalized_at_threshold(score, threshold) == score <= threshold

\* line 488: expr_val < request.threshold
GimmePenalized(score, threshold) == score < threshold

\* lines 485-491: gimme_objective, as the weight of forward + reverse flux of
\* each reaction that has a term
GimmeObjective(scores, threshold) ==
    [kind |-> "gimme",
     terms |-> [r \in {x \in ReactionIds : GimmePenalized(scores[x], threshold)} |->
                   threshold - scores[r]],
     direction |-> "min"]

\* lines 543-547: the reactions appended to high_expr_rxns
HighExprRxns(rules, e, high) ==
    {r \in ReactionIds : rules[r] # << >> /\ evaluate_gpr_expression(rules[r], e) >= high}

\* a classification whose second test does not depend on the first
LowExprRxns_independent(rules, e, high, low) ==
    {r \in ReactionIds : rules[r] # << >> /\ evaluate_gpr_expression(rules[r], e) <= low}

\* lines 543-549: the reactions appended to low_expr_rxns, by the elif
LowExprRxns(rules, e, high, low) ==
    {r \in ReactionIds :
        /\ rules[r] # << >>
        /\ ~(evaluate_gpr_expression(rules[r], e) >= high)
        /\ evaluate_gpr_expression(rules[r], e) <= low}

\* lines 561-588: the binary variables added for the two classes
ImatVariables(high, low) == {<<"y_h", r>> : r \in high} \cup {<<"y_l", r>> : r \in low}

\* lines 561-588: the constraints added for the two classes
ImatConstraints(high, low) ==
    {<<"imat_high", r>> : r \in high} \cup {<<"imat_low", r>> : r \in low}

\* an objective replaced by the sum of the indicators also when there is none
ImatObjective_always(objective, terms) ==
    [kind |-> "imat", terms |-> terms, direction |-> "max"]

\* lines 590-599: the objective is replaced only if obj_terms is not empty
ImatObjective(objective, terms) ==
    IF terms # {} THEN [kind |-> "imat", terms |-> terms, direction |-> "max"]
    ELSE objective

\* lines 457-464: GIMME scores every reaction
ScoreReactions ==
    /\ omics_pc = "score"
    /\ omics_request.method = "gimme"
    /\ reaction_expression' =
          Some(ReactionExpression(omics_request.rules, omics_request.expression))
    /\ omics_pc' = "first_solve"
    /\ UNCHANGED <<omics_request, high_expr_rxns, low_expr_rxns, problem, omics_response>>

\* lines 470-472: the first solve of GIMME is optimal
GimmeFirstSolve ==
    /\ omics_pc = "first_solve"
    /\ omics_pc' = "formulate"
    /\ UNCHANGED <<omics_request, reaction_expression, high_expr_rxns, low_expr_rxns,
                   problem, omics_response>>

\* lines 470-472 and 509-515: the first solve of GIMME is not optimal; the
\* endpoint raises and answers with status "error"
GimmeFirstSolveNotOptimal ==
    /\ omics_pc = "first_solve"
    /\ omics_response' = Some([method |-> "gimme", status |-> "error", solved |-> None])
    /\ omics_pc' = "responded"
    /\ UNCHANGED <<omics_request, reaction_expression, high_expr_rxns, low_expr_rxns, problem>>

\* lines 474-494: the objective of the model becomes the GIMME objective
GimmeFormulate ==
    /\ omics_pc = "formulate"
    /\ omics_request.method = "gimme"
    /\ problem' = [problem EXCEPT !.objective =
                      GimmeObjective(reaction_expression[1], omics_request.threshold)]
    /\ omics_pc' = "solve"
    /\ UNCHANGED <<omics_request, reaction_expression, high_expr_rxns, low_expr_rxns,
                   omics_response>>

\* lines 539-549: iMAT classifies the reactions that have a gene rule
ClassifyReactions ==
    /\ omics_pc = "score"
    /\ omics_request.method = "imat"
    /\ high_expr_rxns' = HighExprRxns(omics_request.rules, omics_request.expression,
                                      omics_request.high_threshold)
    /\ low_expr_rxns' = LowExprRxns(omics_request.rules, omics_request.expression,
                                    omics_request.high_threshold, omics_request.low_threshold)
    /\ omics_pc' = "formulate"
    /\ UNCHANGED <<omics_request, reaction_expression, problem, omics_response>>

\* lines 561-599: the indicators, their constraints and the objective
ImatFormulate ==
    /\ omics_pc = "formulate"
    /\ omics_request.method = "imat"
    /\ problem' =
          [variables |-> problem.variables \cup ImatVariables(high_expr_rxns, low_expr_rxns),
           constraints |-> problem.constraints \cup ImatConstraints(high_expr_rxns, low_expr_rxns),
           objective |-> ImatObjective(problem.objective,
                                       ImatVariables(high_expr_rxns, low_expr_rxns))]
    /\ omics_pc' = "solve"
    /\ UNCHANGED <<omics_request, reaction_expression, high_expr_rxns, low_expr_rxns,
                   omics_response>>

\* lines 496-507 and 601-612: the problem is solved and the response returned
SolveOmics ==
    /\ omics_pc = "solve"
    /\ \E st \in OptimizerStatuses :
          omics_response' = Some([method |-> omics_request.method, status |-> st,
                                  solved |-> Some(problem)])
    /\ omics_pc' = "responded"
    /\ UNCHANGED <<omics_request, reaction_expression, high_expr_rxns, low_expr_rxns, problem>>

InitOmics ==
    /\ omics_request \in OmicsRequests
    /\ omics_pc = "score"
    /\ reaction_expression = None
    /\ high_expr_rxns = {}
    /\ low_expr_rxns = {}
    /\ problem = ConfiguredProblem
    /\ omics_response = None
    /\ CoreIdle
    /\ BuildIdle
    /\ FetchIdle
    /\ SolveIdle
    /\ ConcIdle

NextOmics ==
    \/ ScoreReactions /\ UNCHANGED coreVars /\ UNCHANGED buildVars /\ UNCHANGED fetchVars /\ UNCHANGED solveVars /\ UNCHANGED concVars
    \/ GimmeFirstSolve /\ UNCHANGED coreVars /\ UNCHANGED buildVars /\ UNCHANGED fetchVars /\ UNCHANGED solveVars /\ UNCHANGED concVars
    \/ GimmeFirstSolveNotOptimal /\ UNCHANGED coreVars /\ UNCHANGED buildVars /\ UNCHANGED fetchVars /\ UNCHANGED solveVars /\ UNCHANGED concVars
    \/ GimmeFormulate /\ UNCHANGED coreVars /\ UNCHANGED buildVars /\ UNCHANGED fetchVars /\ UNCHANGED solveVars /\ UNCHANGED concVars
    \/ ClassifyReactions /\ UNCHANGED coreVars /\ UNCHANGED buildVars /\ UNCHANGED fetchVars /\ UNCHANGED solveVars /\ UNCHANGED concVars
    \/ ImatFormulate /\ UNCHANGED coreVars /\ UNCHANGED buildVars /\ UNCHANGED fetchVars /\ UNCHANGED solveVars /\ UNCHANGED concVars
    \/ SolveOmics /\ UNCHANGED coreVars /\ UNCHANGED buildVars /\ UNCHANGED fetchVars /\ UNCHANGED solveVars /\ UNCHANGED concVars

SpecOmics == InitOmics /\ [][NextOmics]_vars

(***************************************************************************)
(* COBRApyBenchmark.solve_fba, solve_pfba and solve_fva (benchmark.py      *)
(* 232-392): one call, from setting the solver to the SolveResult.         *)
(*                                                                         *)
(* A value of the solution is the record [np, v]: np says that it is a     *)
(* numpy scalar, v is the number.  cobra's pfba and                        *)
(* flux_variability_analysis fix the objective at its optimum before they  *)
(* do anything else and raise OptimizationError when the optimizer does    *)
(* not report "optimal"; model.optimize() returns the solution with the    *)
(* status reported.                                                        *)
(***************************************************************************)
SolveKinds == {"fba", "pfba", "fva"}

\* model.id of the model passed in
SolveModelIds == {"m1", "m2"}

\* the fraction argument of solve_fva, in percent
FvaFractions == {90, 100}

\* the calls: fraction is meaningful for solve_fva only
SolveCalls ==
    {[kind |-> k, model_id |-> m, solver |-> s, fraction |-> 90] :
        k \in {"fba", "pfba"}, m \in SolveModelIds, s \in {"glpk", "nosuch"}}
    \cup
    {[kind |-> "fva", model_id |-> m, solver |-> s, fraction |-> f] :
        m \in SolveModelIds, s \in {"glpk", "nosuch"}, f \in FvaFractions}

\* method of the SolveResult: "fba", "pfba" or f"fva_{int(fraction*100)}"
MethodName(call) ==
    IF call.kind = "fva" THEN <<"fva", call.fraction>> ELSE <<call.kind>>

\* the fields every SolveResult of a call has: model_id, method and
\* solver=f"cobrapy-{solver}"
Labelled(call, r) ==
    [model_id |-> call.model_id, method |-> MethodName(call),
     solver |-> <<"cobrapy", call.solver>>,
     status |-> r.status, objective_value |-> r.objective_value,
     fluxes |-> r.fluxes, error |-> r.error]

\* a number of the solution, as numpy scalar or as Python float
SolutionNumbers == {[np |-> TRUE, v |-> 0], [np |-> TRUE, v |-> 10], [np |-> FALSE, v |-> 10]}

\* what the optimizer returns when it reports "optimal": an objective value
\* and a flux per reaction, or for FVA a minimum and maximum per reaction
Solutions ==
    [objective_value : SolutionNumbers, fluxes : [ReactionIds -> SolutionNumbers]]

FvaFrames ==
    [ReactionIds -> [minimum : SolutionNumbers, maximum : SolutionNumbers]]

\* lines 249-253: float(val.item()) for a numpy scalar, float(val) otherwise
ToPyFloat(x) == x.v

\* lines 246-253: the fluxes converted to Python floats
ConvertedFluxes(fl) == [r \in DOMAIN fl |-> ToPyFloat(fl[r])]

\* lines 356-371: {rxn_id: {"min": x, "max": y}}
ConvertedRanges(fr) ==
    [r \in DOMAIN fr |-> [min |-> ToPyFloat(fr[r].minimum), max |-> ToPyFloat(fr[r].maximum)]]

\* a result that keeps the fluxes of a solution that is not optimal
FbaResult_keeps_fluxes(st, sol) ==
    [status |-> st,
     objective_value |-> IF st = "optimal" THEN Some(ToPyFloat(sol.objective_value)) ELSE None,
     fluxes |-> Some(ConvertedFluxes(sol.fluxes)),
     error |-> None]

\* lines 244-279: the SolveResult of solve_fba for the status reported
FbaResult(st, sol) ==
    IF st = "optimal"
    THEN [status |-> "optimal",
          objective_value |-> Some(ToPyFloat(sol.objective_value)),
          fluxes |-> Some(ConvertedFluxes(sol.fluxes)),
          error |-> None]
    ELSE [status |-> st, objective_value |-> None, fluxes |-> None, error |-> None]

\* lines 318-326: the SolveResult of solve_pfba when pfba returned
PfbaResult(sol) ==
    [status |-> "optimal",
     objective_value |-> Some(ToPyFloat(sol.objective_value)),
     fluxes |-> Some(ConvertedFluxes(sol.fluxes)),
     error |-> None]

\* lines 373-381: the SolveResult of solve_fva when the analysis returned
FvaResult(fr) ==
    [status |-> "optimal", objective_value |-> None,
     fluxes |-> Some(ConvertedRanges(fr)), error |-> None]

\* lines 280-290, 327-337, 382-392: the SolveResult of the except clause
ErrorResult(msg) ==
    [status |-> "error", objective_value |-> None, fluxes |-> None, error |-> Some(msg)]

\* line 238: model.solver = solver succeeds
SetSolver ==
    /\ solve_pc = "set_solver"
    /\ solve_call.solver = "glpk"
    /\ solve_pc' = "optimize"
    /\ UNCHANGED <<solve_call, reported, solve_result>>

\* line 238: model.solver = solver raises for a solver that is not installed
SetSolverRaises ==
    /\ solve_pc = "set_solver"
    /\ solve_call.solver # "glpk"
    /\ solve_result' = Some(Labelled(solve_call, ErrorResult("msg")))
    /\ solve_pc' = "returned"
    /\ UNCHANGED <<solve_call, reported>>

\* lines 241-278: solve_fba
FbaOptimize ==
    /\ solve_pc = "optimize"
    /\ solve_call.kind = "fba"
    /\ \E st \in OptimizerStatuses, sol \in Solutions :
          /\ reported' = Some(st)
          /\ solve_result' = Some(Labelled(solve_call, FbaResult(st, sol)))
    /\ solve_pc' = "returned"
    /\ UNCHANGED solve_call

\* lines 300-325: pfba returns a solution
PfbaOptimize ==
    /\ solve_pc = "optimize"
    /\ solve_call.kind = "pfba"
    /\ \E sol \in Solutions :
          solve_result' = Some(Labelled(solve_call, PfbaResult(sol)))
    /\ reported' = Some("optimal")
    /\ solve_pc' = "returned"
    /\ UNCHANGED solve_call

\* lines 349-379: flux_variability_analysis returns a frame
FvaOptimize ==
    /\ solve_pc = "optimize"
    /\ solve_call.kind = "fva"
    /\ \E fr \in FvaFrames :
          solve_result' = Some(Labelled(solve_call, FvaResult(fr)))
    /\ reported' = Some("optimal")
    /\ solve_pc' = "returned"
    /\ UNCHANGED solve_call

\* lines 300 and 349-353: the optimizer reports a status that is not optimal
\* and the library raises
LibraryRaises ==
    /\ solve_pc = "optimize"
    /\ solve_call.kind \in {"pfba", "fva"}
    /\ \E st \in OptimizerStatuses \ {"optimal"} :
          reported' = Some(st)
    /\ solve_result' = Some(Labelled(solve_call, ErrorResult("msg")))
    /\ solve_pc' = "returned"
    /\ UNCHANGED solve_call

\* any other statement of the try block raises, before or after the
\* optimizer has run
SolveRaises ==
    /\ solve_pc = "optimize"
    /\ \E msg \in Messages, rep \in {None, Some("optimal")} :
          /\ solve_result' = Some(Labelled(solve_call, ErrorResult(msg)))
          /\ reported' = rep
    /\ solve_pc' = "returned"
    /\ UNCHANGED solve_call

InitSolve ==
    /\ solve_call \in SolveCalls
    /\ solve_pc = "set_solver"
    /\ reported = None
    /\ solve_result = None
    /\ CoreIdle
    /\ BuildIdle
    /\ FetchIdle
    /\ OmicsIdle
    /\ ConcIdle

NextSolve ==
    \/ SetSolver /\ UNCHANGED coreVars /\ UNCHANGED buildVars /\ UNCHANGED fetchVars /\ UNCHANGED omicsVars /\ UNCHANGED concVars
    \/ SetSolverRaises /\ UNCHANGED coreVars /\ UNCHANGED buildVars /\ UNCHANGED fetchVars /\ UNCHANGED omicsVars /\ UNCHANGED concVars
    \/ FbaOptimize /\ UNCHANGED coreVars /\ UNCHANGED buildVars /\ UNCHANGED fetchVars /\ UNCHANGED omicsVars /\ UNCHANGED concVars
    \/ PfbaOptimize /\ UNCHANGED coreVars /\ UNCHANGED buildVars /\ UNCHANGED fetchVars /\ UNCHANGED omicsVars /\ UNCHANGED concVars
    \/ FvaOptimize /\ UNCHANGED coreVars /\ UNCHANGED buildVars /\ UNCHANGED fetchVars /\ UNCHANGED omicsVars /\ UNCHANGED concVars
    \/ LibraryRaises /\ UNCHANGED coreVars /\ UNCHANGED buildVars /\ UNCHANGED fetchVars /\ UNCHANGED omicsVars /\ UNCHANGED concVars
    \/ SolveRaises /\ UNCHANGED coreVars /\ UNCHANGED buildVars /\ UNCHANGED fetchVars /\ UNCHANGED omicsVars /\ UNCHANGED concVars

SpecSolve == InitSolve /\ [][NextSolve]_vars

(***************************************************************************)
(* Two analysis requests in progress at once (api.py 147-174, 176-193,     *)
(* 249-262, 536-599, 639-653).  The objects of the process are a heap:     *)
(* objects 1 and 2 are the model data of requests 1 and 2, and every model *)
(* built is a further object.  A request holds a reference to its model    *)
(* and rewrites it in place.  The statements of the two requests are       *)
(* interleaved in every order.                                             *)
(*                                                                         *)
(* An object is a record of the bounds, the functional flags of the genes, *)
(* the error flag and the set ind of indicator variables added.  The       *)
(* solution of a model is a function of the model solved and is kept as    *)
(* that model.                                                             *)
(***************************************************************************)
ConcRequestIds == {1, 2}

\* the model data both requests are submitted with
SubmittedModels ==
    {[rules |-> ru,
      lb |-> ("R1" :> b[1] @@ "R2" :> 0),
      ub |-> ("R1" :> b[2] @@ "R2" :> 10000)] :
        ru \in RuleAssignments, b \in ValidBounds}

\* request.expression: both genes measured, at 0.5 or 1.5
ConcExpressions == {e \in EfluxMaps : DOMAIN e = ModelGenes /\ \A g \in ModelGenes : e[g] \in {5, 15}}

\* the requests: FBA with constraints and knockouts, E-Flux and iMAT with an
\* expression map
ConcRequests ==
    {[kind |-> "fba", constraints |-> cs, knockouts |-> ks, expression |-> << >>] :
        cs \in {<< >>, <<[id |-> "R1", lb |-> None, ub |-> Some(3000)]>>},
        ks \in {<< >>, << (<<"a">>) >>}}
    \cup
    {[kind |-> k, constraints |-> << >>, knockouts |-> << >>, expression |-> e] :
        k \in {"eflux", "imat"}, e \in ConcExpressions}

\* high_threshold 1.0 and low_threshold 0.5 of the iMAT requests
ConcHighThreshold == 10

ConcLowThreshold == 5

\* the object that holds model data
DataObject(data) ==
    [lb |-> data.lb, ub |-> data.ub, fn |-> [g \in ModelGenes |-> TRUE],
     err |-> FALSE, ind |-> {}]

\* a model that is the object of the model data itself
model_from_dict_aliasing(h, d) == [heap |-> h, ref |-> d]

\* lines 157-174: json.dumps of the data and cobra.io.from_json give a new
\* object that shares nothing with the data
model_from_dict(h, d) == [heap |-> Append(h, h[d]), ref |-> Len(h) + 1]

\* the model a request leaves behind when it runs alone on the data
AloneModel(req, data) ==
    LET m == DataObject(data)
    IN  CASE req.kind = "fba" ->
                apply_constraints(m, req.constraints, req.knockouts, data.rules)
          [] req.kind = "eflux" ->
                EfluxScaleFrom(m, 1, data.rules, req.expression)
          [] req.kind = "imat" ->
                [m EXCEPT !.ind =
                    ImatVariables(
                        HighExprRxns(data.rules, req.expression, ConcHighThreshold),
                        LowExprRxns(data.rules, req.expression, ConcHighThreshold,
                                    ConcLowThreshold))]

\* lines 250, 537, 640: the request builds its model
ConcBuild(r) ==
    /\ conc_st[r].pc = "build"
    /\ LET b == model_from_dict(conc_heap, r)
       IN  /\ conc_heap' = b.heap
           /\ conc_st' = [conc_st EXCEPT ![r] = [@ EXCEPT !.pc = "mutate", !.ref = b.ref, !.i = 1]]
    /\ UNCHANGED <<submitted, conc_reqs>>

\* line 251: the FBA request applies its constraints and knockouts
ConcApplyConstraints(r) ==
    /\ conc_st[r].pc = "mutate"
    /\ conc_reqs[r].kind = "fba"
    /\ conc_heap' = [conc_heap EXCEPT ![conc_st[r].ref] =
                        apply_constraints(@, conc_reqs[r].constraints, conc_reqs[r].knockouts,
                                          submitted.rules)]
    /\ conc_st' = [conc_st EXCEPT ![r] = [@ EXCEPT !.pc = "solve"]]
    /\ UNCHANGED <<submitted, conc_reqs>>

\* lines 643-651: the E-Flux request scales the bounds of its next reaction
ConcEfluxScale(r) ==
    /\ conc_st[r].pc = "mutate"
    /\ conc_reqs[r].kind = "eflux"
    /\ conc_heap' = [conc_heap EXCEPT ![conc_st[r].ref] =
                        EfluxScaleReaction(@, RxnOrder[conc_st[r].i], submitted.rules,
                                           conc_reqs[r].expression)]
    /\ conc_st' = [conc_st EXCEPT ![r] =
                      [@ EXCEPT !.i = @ + 1,
                                !.pc = IF conc_st[r].i = Len(RxnOrder) THEN "solve" ELSE "mutate"]]
    /\ UNCHANGED <<submitted, conc_reqs>>

\* lines 539-588: the iMAT request adds its indicator variables
ConcImatInject(r) ==
    /\ conc_st[r].pc = "mutate"
    /\ conc_reqs[r].kind = "imat"
    /\ conc_heap' = [conc_heap EXCEPT ![conc_st[r].ref] =
                        [@ EXCEPT !.ind = @ \cup
                            ImatVariables(
                                HighExprRxns(submitted.rules, conc_reqs[r].expression,
                                             ConcHighThreshold),
                                LowExprRxns(submitted.rules, conc_reqs[r].expression,
                                            ConcHighThreshold, ConcLowThreshold))]]
    /\ conc_st' = [conc_st EXCEPT ![r] = [@ EXCEPT !.pc = "solve"]]
    /\ UNCHANGED <<submitted, conc_reqs>>

\* lines 258, 601, 653: the request solves its model and answers
ConcSolve(r) ==
    /\ conc_st[r].pc = "solve"
    /\ conc_st' = [conc_st EXCEPT ![r] =
                      [@ EXCEPT !.pc = "done", !.answer = Some(conc_heap[conc_st[r].ref])]]
    /\ UNCHANGED <<submitted, conc_reqs, conc_heap>>

InitConc ==
    /\ submitted \in SubmittedModels
    /\ conc_reqs \in [ConcRequestIds -> ConcRequests]
    /\ conc_heap = <<DataObject(submitted), DataObject(submitted)>>
    /\ conc_st = [r \in ConcRequestIds |-> [pc |-> "build", ref |-> 0, i |-> 0, answer |-> None]]
    /\ CoreIdle
    /\ BuildIdle
    /\ FetchIdle
    /\ OmicsIdle
    /\ SolveIdle

NextConc ==
    \/ (\E r \in ConcRequestIds : ConcBuild(r)) /\ UNCHANGED coreVars /\ UNCHANGED buildVars /\ UNCHANGED fetchVars /\ UNCHANGED omicsVars /\ UNCHANGED solveVars
    \/ (\E r \in ConcRequestIds : ConcApplyConstraints(r)) /\ UNCHANGED coreVars /\ UNCHANGED buildVars /\ UNCHANGED fetchVars /\ UNCHANGED omicsVars /\ UNCHANGED solveVars
    \/ (\E r \in ConcRequestIds : ConcEfluxScale(r)) /\ UNCHANGED coreVars /\ UNCHANGED buildVars /\ UNCHANGED fetchVars /\ UNCHANGED omicsVars /\ UNCHANGED solveVars
    \/ (\E r \in ConcRequestIds : ConcImatInject(r)) /\ UNCHANGED coreVars /\ UNCHANGED buildVars /\ UNCHANGED fetchVars /\ UNCHANGED omicsVars /\ UNCHANGED solveVars
    \/ (\E r \in ConcRequestIds : ConcSolve(r)) /\ UNCHANGED coreVars /\ UNCHANGED buildVars /\ UNCHANGED fetchVars /\ UNCHANGED omicsVars /\ UNCHANGED solveVars

SpecConc == InitConc /\ [][NextConc]_vars

(***************************************************************************)
(* Properties of evaluate_gpr_expression.                                  *)
(***************************************************************************)
\* the level a gene identifier stands for: its value in the map, 1.0 if absent
LevelOf(g) == IF g \in DOMAIN expression THEN expression[g] ELSE Constitutive

\* OR of ANDs over the levels ls[i..], joined by the operators os[i..]: acc is
\* the minimum of the AND group that ls[i] continues
RECURSIVE OrOfAnds(_, _, _, _)
OrOfAnds(ls, os, i, acc) ==
    LET cur == MinOf(acc, ls[i])
    IN  IF i = Len(ls) THEN cur
        ELSE IF os[i] = OrSep THEN MaxOf(cur, OrOfAnds(ls, os, i + 1, PosInf))
        ELSE OrOfAnds(ls, os, i + 1, cur)

LevelsOf(gs) == [i \in 1..Len(gs) |-> LevelOf(gs[i])]

\* the value of the group open..close of a form, taken on its own
GroupValue(f) ==
    OrOfAnds(LevelsOf(SubSeq(f.gs, f.open, f.close)), SubSeq(f.os, f.open, f.close - 1), 1, PosInf)

\* the value of a form with one group: the group's value stands in its place
GroupedValue(f) ==
    LET n == Len(f.gs)
        ls == LevelsOf(f.gs)
    IN  OrOfAnds(SubSeq(ls, 1, f.open - 1) \o << GroupValue(f) >> \o SubSeq(ls, f.close + 1, n),
                 SubSeq(f.os, 1, f.open - 1) \o SubSeq(f.os, f.close, n - 1), 1, PosInf)

RuleAndOr == <<"a", " ", "a", "n", "d", " ", "b", " ", "o", "r", " ", "c">>

RuleGroupOr == <<"(", "a", " ", "a", "n", "d", " ", "b", ")", " ", "o", "r", " ", "c">>

RuleAndGroup == <<"a", " ", "a", "n", "d", " ", "(", "b", " ", "o", "r", " ", "c", ")">>

ValueAndOr == MaxOf(MinOf(LevelOf(<<"a">>), LevelOf(<<"b">>)), LevelOf(<<"c">>))

\* C1: a parenthesis-free rule over genes is split on "or" first (maximum of
\* the parts) and only then on "and" (minimum): the result is the maximum over
\* the or-separated groups of the minimum of each group; in particular
\* 'a and b or c' evaluates to max(min(e[a], e[b]), e[c]).
C1_OrThenAnd ==
    pc = "done" =>
        /\ (rule_form # NoForm /\ rule_form.open = 0) =>
              result = OrOfAnds(LevelsOf(rule_form.gs), rule_form.os, 1, PosInf)
        /\ gpr_rule = RuleAndOr => result = ValueAndOr

\* 'a and b or c' returned 0.8 for {a: 0.2, b: 0.2, c: 0.8}
C1_Witness ==
    /\ pc = "done"
    /\ gpr_rule = RuleAndOr
    /\ DOMAIN expression = GeneIds
    /\ expression[<<"a">>] = 2
    /\ expression[<<"b">>] = 2
    /\ expression[<<"c">>] = 8
    /\ result = 8

\* gene identifiers in either letter case, in the map or not
CasedGeneIds == MapGeneIds \cup {<<"A">>, <<"z">>}

Apply(op, x, y) == IF op = OrSep THEN MaxOf(x, y) ELSE MinOf(x, y)

\* C2: every gene of a rule is looked up under its identifier as written:
\* a rule 'g1 op g2' over identifiers of any letter case evaluates to op of
\* the levels of g1 and g2, where a key of the map has its mapped value and
\* only an identifier absent from the map has the default 1.0.
C2_LookupAsWritten ==
    pc = "done" =>
        \A g1 \in CasedGeneIds : \A g2 \in CasedGeneIds : \A op \in Operators :
            gpr_rule = g1 \o op \o g2 => result = Apply(op, LevelOf(g1), LevelOf(g2))

\* C3: a parenthesised sub-expression is evaluated on its own and its value
\* replaces it before the enclosing operators are applied; in particular
\* '(a and b) or c' is max(min(e[a], e[b]), e[c]) and 'a and (b or c)' is
\* min(e[a], max(e[b], e[c])).
C3_ParenthesesFirst ==
    pc = "done" =>
        /\ (rule_form # NoForm /\ rule_form.open > 0) => result = GroupedValue(rule_form)
        /\ gpr_rule = RuleGroupOr => result = ValueAndOr
        /\ gpr_rule = RuleAndGroup =>
              result = MinOf(LevelOf(<<"a">>), MaxOf(LevelOf(<<"b">>), LevelOf(<<"c">>)))

\* 'a and (b or c)' returned 0.2 for {a: 0.2, b: 0.2, c: 0.8}: the value of the
\* group (0.8) took its place before the "and" was applied
C3_Witness ==
    /\ pc = "done"
    /\ gpr_rule = RuleAndGroup
    /\ DOMAIN expression = GeneIds
    /\ expression[<<"a">>] = 2
    /\ expression[<<"b">>] = 2
    /\ expression[<<"c">>] = 8
    /\ iters = 1
    /\ result = 2

\* C4: a blank rule (empty or blanks only) evaluates to 1.0 whatever the map
\* is, and a rule that is one gene identifier absent from the map evaluates
\* to 1.0.
C4_BlankAndUnknown ==
    pc = "done" =>
        /\ PyStrip(gpr_rule) = << >> => result = Constitutive
        /\ \A g \in CasedGeneIds :
              (PyStrip(gpr_rule) = g /\ g \notin DOMAIN expression) => result = Constitutive

\* the rule ' c ' returned 1.0 for a non-empty map without the key c
C4_Witness ==
    /\ pc = "done"
    /\ gpr_rule = <<" ", "c", " ">>
    /\ <<"c">> \notin DOMAIN expression
    /\ <<"a">> \in DOMAIN expression
    /\ result = Constitutive

\* C5: for every rule string, well-formed or malformed, the call returns to
\* its caller (it is never cut short by the working string exhausting memory)
\* and the value it returns is a finite number.
C5_ReturnsFinite ==
    /\ pc # "killed"
    /\ pc = "done" => IsFinite(result)

(***************************************************************************)
(* Properties of apply_constraints and of the E-Flux scaling.              *)
(***************************************************************************)
AfterApply == last_op.kind = "apply"

AfterEflux == last_op.kind = "eflux"

\* the last call named field lb (ub) of reaction r in an override
NamesLb(r) == \E i \in 1..Len(last_op.constraints) :
                 last_op.constraints[i].id = r /\ last_op.constraints[i].lb # None

NamesUb(r) == \E i \in 1..Len(last_op.constraints) :
                 last_op.constraints[i].id = r /\ last_op.constraints[i].ub # None

\* the last call knocked out a gene of the model
KnockedModelGene == \E i \in 1..Len(last_op.knockouts) : last_op.knockouts[i] \in ModelGenes

\* the last call named only ids that the model does not have
OnlyUnknownIds ==
    /\ \A i \in 1..Len(last_op.constraints) : last_op.constraints[i].id \notin ReactionIds
    /\ ~KnockedModelGene

BoundsUnchanged == lower_bound = pre_lb /\ upper_bound = pre_ub

KnockoutOnly == AfterApply /\ last_op.constraints = << >> /\ last_op.knockouts # << >>

R1Unsatisfied ==
    IF rxn_rule["R1"] = RuleAandB THEN ~(functional[<<"a">>] /\ functional[<<"b">>])
    ELSE ~(functional[<<"a">>] \/ functional[<<"b">>])

EfluxLevel(g) == IF g \in DOMAIN last_op.expression THEN last_op.expression[g] ELSE Constitutive

\* the score of R1 under the map of the last E-Flux request
R1Score ==
    IF rxn_rule["R1"] = RuleAandB THEN MinOf(EfluxLevel(<<"a">>), EfluxLevel(<<"b">>))
    ELSE MaxOf(EfluxLevel(<<"a">>), EfluxLevel(<<"b">>))

\* C9: E-Flux never widens a bound: the absolute value of each bound after
\* the scaling is at most its absolute value before; only a positive upper
\* bound and a negative lower bound are multiplied by the score; a reaction
\* without gene rule or with a score >= 1.0 keeps its bounds.
C9_EfluxNeverWidens ==
    AfterEflux =>
        /\ \A r \in ReactionIds :
              /\ Abs(lower_bound[r]) <= Abs(pre_lb[r])
              /\ Abs(upper_bound[r]) <= Abs(pre_ub[r])
        /\ upper_bound["R1"] # pre_ub["R1"] =>
              (pre_ub["R1"] > 0 /\ upper_bound["R1"] = Scaled(pre_ub["R1"], R1Score))
        /\ lower_bound["R1"] # pre_lb["R1"] =>
              (pre_lb["R1"] < 0 /\ lower_bound["R1"] = Scaled(pre_lb["R1"], R1Score))
        /\ (~raised /\ R1Score < Constitutive /\ pre_ub["R1"] > 0) =>
              upper_bound["R1"] = Scaled(pre_ub["R1"], R1Score)
        /\ (~raised /\ R1Score < Constitutive /\ pre_lb["R1"] < 0) =>
              lower_bound["R1"] = Scaled(pre_lb["R1"], R1Score)
        /\ R1Score >= Constitutive =>
              (lower_bound["R1"] = pre_lb["R1"] /\ upper_bound["R1"] = pre_ub["R1"])
        /\ lower_bound["R2"] = pre_lb["R2"] /\ upper_bound["R2"] = pre_ub["R2"]

\* E-Flux scaled the reversible R1 by the score 0.5: [-10, 10] became [-5, 5]
C9_Witness ==
    /\ AfterEflux
    /\ ~raised
    /\ R1Score = 5
    /\ pre_lb["R1"] = -10000
    /\ pre_ub["R1"] = 10000
    /\ lower_bound["R1"] = -5000
    /\ upper_bound["R1"] = 5000

(***************************************************************************)
(* Properties of BenchmarkComparator.compare.                              *)
(***************************************************************************)
\* compare returned, and at least one of the two results was not optimal
ComparedNonOptimal ==
    /\ comparison # None
    /\ ~comparison[1].raised
    /\ (result_a.status # "optimal" \/ result_b.status # "optimal")

\* the comparison failed, with a note naming both statuses and no difference
\* computed
FailedWithoutDifferences ==
    /\ comparison[1].passed = FALSE
    /\ comparison[1].notes.text = "Non-optimal status"
    /\ comparison[1].notes.status_a = result_a.status
    /\ comparison[1].notes.status_b = result_b.status
    /\ comparison[1].obj_diff = None
    /\ comparison[1].obj_rel_diff = None
    /\ comparison[1].flux_l2_norm = None
    /\ comparison[1].flux_max_diff = None
    /\ comparison[1].flux_max_diff_rxn = None

\* C10 as stated: with a result that is not optimal, compare returns
\* passed = false, a note naming the statuses, and every numeric field null:
\* the two objective values and the objective and flux differences.
C10_NonOptimalAllNull ==
    ComparedNonOptimal =>
        /\ FailedWithoutDifferences
        /\ comparison[1].obj_a = None
        /\ comparison[1].obj_b = None

\* C10 (amended): with a result that is not optimal, compare returns
\* passed = false, a note naming the two statuses, and the difference fields
\* (obj_diff, obj_rel_diff, flux_l2_norm, flux_max_diff, flux_max_diff_rxn)
\* null; obj_a and obj_b are the objective values of the two results as given,
\* null only for a result that has none.
C10_NonOptimalNoDifferences ==
    /\ (comparison # None /\ (result_a.status # "optimal" \/ result_b.status # "optimal")) =>
          ~comparison[1].raised
    /\ ComparedNonOptimal =>
          /\ FailedWithoutDifferences
          /\ comparison[1].obj_a = result_a.objective_value
          /\ comparison[1].obj_b = result_b.objective_value

\* an optimal result with objective 5e-7 and fluxes was compared with an
\* infeasible one: failed, no difference, obj_a carried over
C10_Witness ==
    /\ ComparedNonOptimal
    /\ result_a.status = "optimal"
    /\ result_a.objective_value = Some(5)
    /\ Truthy(result_a.fluxes)
    /\ result_b.status = "infeasible"
    /\ result_b.objective_value = None
    /\ comparison[1].passed = FALSE
    /\ comparison[1].obj_a = Some(5)
    /\ comparison[1].obj_b = None

\* compare returned for two optimal results
ComparedOptimal ==
    /\ comparison # None
    /\ ~comparison[1].raised
    /\ result_a.status = "optimal"
    /\ result_b.status = "optimal"

\* the two results have a reaction in common
FluxesCompared ==
    /\ result_a.fluxes # None
    /\ result_b.fluxes # None
    /\ DOMAIN result_a.fluxes[1] \cap DOMAIN result_b.fluxes[1] # {}

\* C11 as stated: for every optimal result r, compare(r, copy of r) yields
\* obj_diff = 0, flux_l2_norm = 0 and passed = true.
C11_ReflexiveAllZero ==
    (comparison # None /\ result_a = result_b /\ result_a.status = "optimal") =>
        /\ ~comparison[1].raised
        /\ comparison[1].obj_diff = Some(0)
        /\ comparison[1].flux_l2_norm = Some([sqrt_of |-> 0])
        /\ comparison[1].passed = TRUE

\* C11 (amended): for every optimal result r, compare(r, copy of r) returns
\* obj_diff = 0 and passed = true; flux_l2_norm is 0 when r has a non-empty
\* flux map and null when r has no fluxes (None or an empty map).
C11_Reflexive ==
    (comparison # None /\ result_a = result_b /\ result_a.status = "optimal") =>
        /\ ~comparison[1].raised
        /\ comparison[1].obj_diff = Some(0)
        /\ comparison[1].passed = TRUE
        /\ comparison[1].flux_l2_norm =
              IF FluxesCompared THEN Some([sqrt_of |-> 0]) ELSE None

\* an optimal result with a non-zero scalar flux and an FVA pair was compared
\* with its copy
C11_Witness ==
    /\ ComparedOptimal
    /\ result_a = result_b
    /\ result_a.objective_value = Some(10)
    /\ result_a.fluxes = Some([r \in FluxRxnIds |-> IF r = "R1" THEN Scalar(2000) ELSE Range(0, 2000)])
    /\ comparison[1].flux_l2_norm = Some([sqrt_of |-> 0])
    /\ comparison[1].passed = TRUE

\* the difference fields of two outcomes agree
SameDifferences(c, d) ==
    IF c.raised \/ d.raised THEN c.raised /\ d.raised
    ELSE /\ c.obj_diff = d.obj_diff
         /\ c.obj_rel_diff = d.obj_rel_diff
         /\ c.flux_l2_norm = d.flux_l2_norm
         /\ c.flux_max_diff = d.flux_max_diff
         /\ c.passed = d.passed

\* C12: compare(a, b) and compare(b, a) either both raise or return the same
\* obj_diff, obj_rel_diff, flux_l2_norm, flux_max_diff and passed.
C12_Symmetric ==
    comparison # None =>
        \A d \in compare(result_b, result_a) : SameDifferences(comparison[1], d)

\* two optimal results that differ in objective and in the flux of a common
\* reaction were compared
C12_Witness ==
    /\ ComparedOptimal
    /\ result_a.objective_value = Some(5)
    /\ result_b.objective_value = Some(10)
    /\ FluxesCompared
    /\ comparison[1].obj_diff = Some(5)
    /\ comparison[1].flux_max_diff = Some(2000)
    /\ \E d \in compare(result_b, result_a) : d.flux_max_diff = Some(2000)

\* objective_value, with 0 for a result that has none
ObjOf(r) == IF r.objective_value = None THEN 0 ELSE r.objective_value[1]

\* |objA - objB| is below 1e-6
ObjectivesAgree ==
    /\ ObjOf(result_a) - ObjOf(result_b) < 10
    /\ ObjOf(result_b) - ObjOf(result_a) < 10

\* C13: for two optimal results passed is true exactly when
\* |objA - objB| < 1e-6; a flux_max_diff above 1e-4 does not change passed and
\* is noted only when the comparison passes.
C13_PassCriterion ==
    ComparedOptimal =>
        /\ comparison[1].passed = ObjectivesAgree
        /\ (comparison[1].notes.text = "Large flux difference at") =>
              /\ comparison[1].passed
              /\ comparison[1].flux_max_diff # None
              /\ comparison[1].flux_max_diff[1] > 1000
        /\ (~comparison[1].passed) =>
              comparison[1].notes.text = "Objective difference exceeds tolerance"

\* two optimal results with objectives 0 and 1e-6 and a flux difference of
\* 2e-4: failed on the objective, the flux difference not noted
C13_Witness ==
    /\ ComparedOptimal
    /\ result_a.objective_value = Some(0)
    /\ result_b.objective_value = Some(10)
    /\ comparison[1].flux_max_diff = Some(2000)
    /\ comparison[1].passed = FALSE
    /\ comparison[1].notes.text = "Objective difference exceeds tolerance"

\* the difference of reaction r between the two results
ExpectedDiff(r) ==
    LET fa == result_a.fluxes[1][r]
        fb == result_b.fluxes[1][r]
        dmin == IF fa.min >= fb.min THEN fa.min - fb.min ELSE fb.min - fa.min
        dmax == IF fa.max >= fb.max THEN fa.max - fb.max ELSE fb.max - fa.max
    IN  IF fa.range THEN (IF dmin >= dmax THEN dmin ELSE dmax) ELSE dmin

\* the reactions of both flux maps
InBoth == DOMAIN result_a.fluxes[1] \cap DOMAIN result_b.fluxes[1]

\* the squared difference of r, 0 for a reaction that is not in both maps
SquareIfBoth(r) == IF r \in InBoth THEN ExpectedDiff(r) * ExpectedDiff(r) ELSE 0

\* norm, largest difference and reported reaction are those of the reactions
\* in both maps
FluxFieldsOverIntersection ==
    /\ comparison[1].flux_l2_norm = Some([sqrt_of |-> SquareIfBoth("R1") + SquareIfBoth("R2")])
    /\ comparison[1].flux_max_diff # None
    /\ \A r \in InBoth : ExpectedDiff(r) <= comparison[1].flux_max_diff[1]
    /\ \E r \in InBoth : ExpectedDiff(r) = comparison[1].flux_max_diff[1]

\* C14 as stated: for two optimal results the flux fields range over the
\* reactions of both maps, and flux_max_diff_rxn is a reaction that attains
\* flux_max_diff.
C14_MaxRxnAttains ==
    (ComparedOptimal /\ FluxesCompared) =>
        /\ FluxFieldsOverIntersection
        /\ comparison[1].flux_max_diff_rxn # None
        /\ comparison[1].flux_max_diff_rxn[1] \in InBoth
        /\ ExpectedDiff(comparison[1].flux_max_diff_rxn[1]) = comparison[1].flux_max_diff[1]

\* C14 (amended): for two optimal results whose flux maps share a reaction and
\* hold fluxes of the same kind, the per-reaction difference is |fa - fb| for
\* scalars and max(|min_a - min_b|, |max_a - max_b|) for min/max pairs, taken
\* over exactly the reactions in both maps; flux_l2_norm is the square root of
\* the sum of squares, flux_max_diff the largest difference, and
\* flux_max_diff_rxn a reaction that attains it when it is positive and null
\* when every difference is 0.  Without a common reaction the three fields
\* are null.
C14_FluxOverIntersection ==
    ComparedOptimal =>
        IF FluxesCompared
        THEN /\ FluxFieldsOverIntersection
             /\ IF comparison[1].flux_max_diff[1] = 0
                THEN comparison[1].flux_max_diff_rxn = None
                ELSE /\ comparison[1].flux_max_diff_rxn # None
                     /\ comparison[1].flux_max_diff_rxn[1] \in InBoth
                     /\ ExpectedDiff(comparison[1].flux_max_diff_rxn[1]) = comparison[1].flux_max_diff[1]
        ELSE /\ comparison[1].flux_l2_norm = None
             /\ comparison[1].flux_max_diff = None
             /\ comparison[1].flux_max_diff_rxn = None

\* result_a has fluxes for R1 and R2, result_b only for R2: R1 has no effect,
\* R2 differs by 2e-4 and is reported
C14_Witness ==
    /\ ComparedOptimal
    /\ result_a.fluxes = Some([r \in FluxRxnIds |-> IF r = "R1" THEN Scalar(500) ELSE Scalar(2000)])
    /\ result_b.fluxes = Some([r \in {"R2"} |-> Scalar(0)])
    /\ comparison[1].flux_l2_norm = Some([sqrt_of |-> 4000000])
    /\ comparison[1].flux_max_diff = Some(2000)
    /\ comparison[1].flux_max_diff_rxn = Some("R2")

(***************************************************************************)
(* Properties of BiGGModelCatalog.get_benchmark_models.                    *)
(***************************************************************************)
\* the call was made on the catalog as given (no fetch) and has ended
SelectedFromGiven == selected # None /\ ~fetched

\* positions of the catalog's models that pass the filter
PassingPositions ==
    {i \in DOMAIN catalog :
        min_reactions <= catalog[i].reaction_count /\ catalog[i].reaction_count <= max_reactions}

\* F: the number of models that pass the filter
NumPassing == Cardinality(PassingPositions)

\* the smallest reaction count among the models that pass
SmallestPassing ==
    CHOOSE n \in {catalog[i].reaction_count : i \in PassingPositions} :
        \A i \in PassingPositions : n <= catalog[i].reaction_count

\* C15 as stated: when more models pass the filter than limit, the selection
\* is strictly increasing in reaction_count and starts with the smallest
\* filtered model.
C15_StrictlyIncreasingSize ==
    (SelectedFromGiven /\ NumPassing > limit) =>
        /\ ~selected[1].raised
        /\ \A j, k \in DOMAIN selected[1].models :
              j < k => selected[1].models[j].reaction_count < selected[1].models[k].reaction_count
        /\ selected[1].models # << >> =>
              selected[1].models[1].reaction_count = SmallestPassing

\* C15 (amended): when more models pass the filter than limit and limit >= 1,
\* the selection holds limit pairwise different models, is non-decreasing in
\* reaction_count (models of equal size may both be selected) and starts with
\* a smallest filtered model; with limit = 0 and a model that passes, the call
\* raises ZeroDivisionError.
C15_NondecreasingSize ==
    (SelectedFromGiven /\ NumPassing > limit) =>
        IF limit = 0 THEN selected[1].raised
        ELSE /\ ~selected[1].raised
             /\ Len(selected[1].models) = limit
             /\ \A j, k \in DOMAIN selected[1].models :
                   j < k =>
                     /\ selected[1].models[j].reaction_count <= selected[1].models[k].reaction_count
                     /\ selected[1].models[j].bigg_id # selected[1].models[k].bigg_id
             /\ selected[1].models[1].reaction_count = SmallestPassing
             /\ \A j \in DOMAIN selected[1].models :
                   \E i \in PassingPositions : catalog[i] = selected[1].models[j]

\* three models of sizes 20, 10, 10 and limit 2: the two models of size 10
\* are selected
C15_Witness ==
    /\ SelectedFromGiven
    /\ catalog = <<ModelInfo(1, 20), ModelInfo(2, 10), ModelInfo(3, 10)>>
    /\ NumPassing = 3
    /\ limit = 2
    /\ selected[1] = Returned(<<ModelInfo(2, 10), ModelInfo(3, 10)>>)

\* the number of models of the catalog as given that pass the filter
NumPassingGiven == IF fetched THEN 0 ELSE NumPassing

\* the passing models smaller than m, or of equal size and earlier in the
\* catalog: the index of m in the sorted list
RankOf(m) ==
    Cardinality({i \in PassingPositions :
                    \/ catalog[i].reaction_count < m.reaction_count
                    \/ catalog[i].reaction_count = m.reaction_count /\ catalog[i].bigg_id < m.bigg_id})

\* C16: for every catalog, range and limit >= 0 the call returns without
\* raising exactly min(limit, F) models that satisfy the filter, and when
\* F > limit they are the models at the indices floor(i * F / limit),
\* i = 0..limit-1, of the list sorted by reaction_count.
C16_SamplesMinLimitF ==
    selected # None =>
        /\ ~selected[1].raised
        /\ Len(selected[1].models) = MinOf(limit, NumPassingGiven)
        /\ \A j \in DOMAIN selected[1].models :
              /\ min_reactions <= selected[1].models[j].reaction_count
              /\ selected[1].models[j].reaction_count <= max_reactions
        /\ NumPassingGiven > limit =>
              \A j \in DOMAIN selected[1].models :
                  RankOf(selected[1].models[j]) = ((j - 1) * NumPassingGiven) \div limit

(***************************************************************************)
(* Properties of COBRApyBenchmark.run_benchmark.                           *)
(***************************************************************************)
\* C17: run_benchmark never raises, and returns one result for every
\* (model, method, solver) combination of the models that loaded.
C17_NeverAborts ==
    /\ run_pc # "raised"
    /\ run_pc = "returned" => Len(results) = loaded * Len(methods) * Len(solvers)

\* C18: no two solves of the benchmark loop are given the same model object.
C18_FreshModelPerTuple ==
    \A i, j \in DOMAIN results : i # j => results[i].obj # results[j].obj

(***************************************************************************)
(* Properties of the formulation endpoints.                                *)
(***************************************************************************)
\* C19: no formulation call raises to its caller; an exception raised during
\* the call becomes a response with status "error", a non-empty error
\* message, objective_value null and an empty flux / range map.
C19_ErrorsBecomeResponses ==
    /\ api_pc # "raised"
    /\ (response # None /\ caught # None) =>
          /\ response[1].status = "error"
          /\ response[1].error # None
          /\ response[1].error[1] # ""
          /\ response[1].objective_value = None
          /\ response[1].fluxes = {}

\* the solves of the call whose reported status was not optimal
NotOptimalReports == {i \in DOMAIN reports : reports[i].status # "optimal"}

\* the status the optimizer reported: that of the first solve that was not
\* optimal, "optimal" when every solve was
ReportedStatus ==
    IF NotOptimalReports = {} THEN "optimal"
    ELSE reports[CHOOSE i \in NotOptimalReports : \A j \in NotOptimalReports : i <= j].status

\* C20: when every optimizer run of the call completed without an exception
\* (nothing was raised by a statement or by the library), the status of the
\* response is the status the optimizer reported; an infeasible or unbounded
\* solve is answered as "infeasible" or "unbounded", never as "error" or
\* "optimal".
C20_StatusAsReported ==
    (response # None /\ reports # << >> /\ (caught = None \/ caught[1].origin = "code")) =>
        response[1].status = ReportedStatus

(***************************************************************************)
(* Properties of building a model from model data.                         *)
(***************************************************************************)
\* the reactions of the data that reference a metabolite not declared
UndeclaredReferences ==
    {i \in DOMAIN model_json.reactions :
        ~(model_json.reactions[i] \subseteq model_json.metabolites)}

\* C21: model data in which a reaction references an undeclared metabolite is
\* never solved: the build fails before any solve, and no reaction is added
\* to the model with the undeclared reference dropped.
C21_UndeclaredNeverSolved ==
    build_pc = "solved" =>
        /\ UndeclaredReferences = {}
        /\ \A i \in DOMAIN built.reactions : built.reactions[i] = model_json.reactions[i]

(***************************************************************************)
(* Properties of fetch_catalog.                                            *)
(***************************************************************************)
\* C22: fetch_catalog persists the list it fetched.  Once a fetch has
\* succeeded, the file read back is the list fetched last, and a call with
\* force_refresh=False returns that list without contacting the network; a
\* call with force_refresh=True always contacts the network and, when it
\* returns, has replaced the persisted list by the one it returns; a call
\* that raises leaves the file as it was.
C22_FetchPersists ==
    /\ last_fetched # None =>
          /\ catalog_file # None
          /\ Load(catalog_file[1]) = last_fetched[1]
    /\ fetch_call # None =>
          LET c == fetch_call[1]
          IN  /\ (~c.force_refresh /\ c.fetched_before # None) =>
                    /\ c.outcome = "returned"
                    /\ c.value = c.fetched_before[1]
                    /\ ~c.contacted
              /\ c.force_refresh =>
                    /\ c.contacted
                    /\ c.outcome = "returned" =>
                          /\ catalog_file = Some(Dump(c.value))
                          /\ last_fetched = Some(c.value)
              /\ c.outcome = "raised" => catalog_file = c.file_before

\* a new instance reads back, without the network, a non-empty list fetched
\* by an earlier call, after a forced fetch has failed or succeeded
C22_Witness ==
    /\ fetch_call # None
    /\ ~fetch_call[1].force_refresh
    /\ fetch_call[1].outcome = "returned"
    /\ ~fetch_call[1].contacted
    /\ fetch_call[1].fetched_before # None
    /\ fetch_call[1].inst_before = << >>
    /\ Len(fetch_call[1].value) = 2
    /\ fetches = 3

(***************************************************************************)
(* Properties of solve_imat and solve_gimme.                               *)
(***************************************************************************)
\* iMAT has classified the reactions of the request
ImatClassified == omics_request # << >> /\ omics_request.method = "imat" /\ omics_pc # "score"

\* the score of a reaction of the request that has a gene rule
RuleScore(r) == evaluate_gpr_expression(omics_request.rules[r], omics_request.expression)

\* the reactions of the request that have a gene rule
WithRule == {r \in ReactionIds : omics_request.rules[r] # << >>}

\* C25 (as stated): a reaction is high iff its score >= high_threshold and
\* low iff its score <= low_threshold, for all thresholds, and no reaction
\* is in both classes.
C25_HighAndLowByThreshold ==
    ImatClassified =>
        /\ \A r \in WithRule :
              /\ r \in high_expr_rxns <=> RuleScore(r) >= omics_request.high_threshold
              /\ r \in low_expr_rxns <=> RuleScore(r) <= omics_request.low_threshold
        /\ high_expr_rxns \cap low_expr_rxns = {}

\* C25 (amended): only reactions with a gene rule are classified; such a
\* reaction is high iff its score >= high_threshold, and low iff its score
\* <= low_threshold and it is not high; no reaction is in both classes and
\* none receives both a y_h and a y_l indicator.
C25_HighFirstThenLow ==
    /\ ImatClassified =>
          /\ high_expr_rxns \cup low_expr_rxns \subseteq WithRule
          /\ \A r \in WithRule :
                /\ r \in high_expr_rxns <=> RuleScore(r) >= omics_request.high_threshold
                /\ r \in low_expr_rxns <=>
                      /\ RuleScore(r) <= omics_request.low_threshold
                      /\ RuleScore(r) < omics_request.high_threshold
          /\ high_expr_rxns \cap low_expr_rxns = {}
    /\ (ImatClassified /\ omics_pc \in {"solve", "responded"}) =>
          \A r \in ReactionIds : ~(<<"y_h", r>> \in problem.variables /\ <<"y_l", r>> \in problem.variables)

\* thresholds that cross, with a reaction scored between them classified high
\* and the indicators added
C25_Witness ==
    /\ ImatClassified
    /\ omics_pc = "solve"
    /\ omics_request.high_threshold <= omics_request.low_threshold
    /\ \E r \in WithRule :
          /\ RuleScore(r) >= omics_request.high_threshold
          /\ RuleScore(r) <= omics_request.low_threshold
          /\ <<"y_h", r>> \in problem.variables
    /\ low_expr_rxns # {}

\* GIMME has replaced the objective of the model
GimmeFormulated ==
    /\ omics_request # << >>
    /\ omics_request.method = "gimme"
    /\ omics_pc \in {"solve", "responded"}
    /\ problem.objective.kind = "gimme"

\* C26: the GIMME objective has a term for exactly the reactions whose score
\* is strictly below threshold, each with the strictly positive weight
\* threshold - score; a reaction at or above threshold has no term; a
\* reaction without gene rule is scored 1.0.
C26_GimmeTerms ==
    GimmeFormulated =>
        LET terms == problem.objective.terms
            score == reaction_expression[1]
        IN  /\ \A r \in ReactionIds :
                  /\ r \in DOMAIN terms <=> score[r] < omics_request.threshold
                  /\ r \in DOMAIN terms =>
                        /\ terms[r] = omics_request.threshold - score[r]
                        /\ terms[r] > 0
                  /\ omics_request.rules[r] = << >> => score[r] = Constitutive
                  /\ omics_request.rules[r] # << >> => score[r] = RuleScore(r)
            /\ problem.objective.direction = "min"

\* a GIMME objective with a term for one reaction and none for another
\* whose score equals the threshold
C26_Witness ==
    /\ GimmeFormulated
    /\ \E r, q \in ReactionIds :
          /\ r \in DOMAIN problem.objective.terms
          /\ q \notin DOMAIN problem.objective.terms
          /\ reaction_expression[1][q] = omics_request.threshold

\* C30: when iMAT classifies no reaction, it adds no variable and no
\* constraint and leaves the configured objective in place: the problem
\* solved is the one ordinary FBA solves on the model, and the response is
\* labelled "imat".
C30_ImatWithoutClassesIsFba ==
    (/\ ImatClassified
     /\ high_expr_rxns = {}
     /\ low_expr_rxns = {}
     /\ omics_pc \in {"solve", "responded"}) =>
        /\ problem = ConfiguredProblem
        /\ omics_response # None =>
              /\ omics_response[1].method = "imat"
              /\ omics_response[1].solved = Some(ConfiguredProblem)

\* an iMAT response for a model in which no reaction has a gene rule
C30_Witness ==
    /\ ImatClassified
    /\ WithRule = {}
    /\ omics_response # None
    /\ omics_response[1].solved = Some(ConfiguredProblem)

(***************************************************************************)
(* Properties of solve_moma.                                               *)
(***************************************************************************)
\* a MOMA call that has entered its try block
InMoma == request # << >> /\ request.method = "moma" /\ api_pc \in {"try", "responded"}

\* the solves of the call so far that were the step k
Solved(k) == {i \in DOMAIN reports : reports[i].step = k}

\* apply_constraints has completed in the call
Applied ==
    \E i \in DOMAIN Steps(request) : Steps(request)[i] = "apply" /\ i < step

OpenCount(s) == Cardinality({i \in DOMAIN s : s[i] = "("})

\* C27: evaluate_gpr_expression terminates on every rule string: each
\* iteration of the parenthesis loop strictly reduces the number of "(" in
\* the working expression, also for rules with unbalanced parentheses.
C27_EachIterationRemovesOpen ==
    [][(pc = "paren" /\ iters' = iters + 1) => OpenCount(expr') < OpenCount(expr)]_vars

(***************************************************************************)
(* Comparison of results without objective value.                          *)
(***************************************************************************)
\* two optimal results without objective value have been compared and the
\* call returned
ComparedWithoutObjectives ==
    /\ comparison # None
    /\ ~comparison[1].raised
    /\ result_a.status = "optimal"
    /\ result_b.status = "optimal"
    /\ result_a.objective_value = None
    /\ result_b.objective_value = None

\* C28: comparing two optimal results whose objective_value is None takes
\* both objectives as 0: obj_diff = 0 and passed = true whatever the fluxes
\* are; a disagreement of the fluxes shows only in the flux fields and in
\* the note.
C28_NoObjectiveAlwaysPasses ==
    ComparedWithoutObjectives =>
        /\ comparison[1].obj_a = Some(0)
        /\ comparison[1].obj_b = Some(0)
        /\ comparison[1].obj_diff = Some(0)
        /\ comparison[1].passed
        /\ comparison[1].notes.text \in {"", "Large flux difference at"}

\* two FVA results whose ranges of R1 differ by 2e-4: passed, with the
\* difference in flux_max_diff and in the note
C28_Witness ==
    /\ ComparedWithoutObjectives
    /\ result_a.fluxes = Some("R1" :> Range(0, 0))
    /\ result_b.fluxes = Some("R1" :> Range(0, 2000))
    /\ comparison[1].passed
    /\ comparison[1].flux_max_diff = Some(2000)
    /\ comparison[1].notes.text = "Large flux difference at"

C23_RequestsIsolated ==
    /\ \A r \in ConcRequestIds :
          /\ conc_heap[r] = DataObject(submitted)
          /\ conc_st[r].pc # "build" => conc_st[r].ref \notin ConcRequestIds
          /\ conc_st[r].pc = "done" =>
                conc_st[r].answer = Some(AloneModel(conc_reqs[r], submitted))
    /\ \A r, q \in ConcRequestIds :
          (r # q /\ conc_st[r].pc # "build" /\ conc_st[q].pc # "build") =>
              conc_st[r].ref # conc_st[q].ref

\* an E-Flux request that has built its model and scaled the bounds of R1,
\* and an FBA request that was built after it and has answered in between
C23_Witness ==
    /\ conc_reqs[1].kind = "eflux"
    /\ conc_reqs[2].kind = "fba"
    /\ conc_st[1].pc = "mutate"
    /\ conc_st[1].i = 2
    /\ conc_heap[conc_st[1].ref] # DataObject(submitted)
    /\ conc_st[2].pc = "done"
    /\ conc_st[1].ref < conc_st[2].ref
    /\ conc_st[2].answer = Some(DataObject(submitted))

====
